---- MODULE Spec2Model ----
(***************************************************************************)
(* A model of lsmdb: the api::StorageEngine orchestrator (src/src/api.rs), *)
(* its MemTable (src/src/memtable.rs), the Bloom filter that gates the     *)
(* MemTable (src/src/sst/bloom_filter.rs), the SSTable list                *)
(* (src/src/sst/sstable.rs) and the byte-exact write-ahead log             *)
(* (src/src/write_ahead_log.rs).                                           *)
(*                                                                         *)
(* Keys and values are byte strings (sequences of 0..255).  The WAL file   *)
(* is the sequence of bytes on disk; it survives a crash, everything else  *)
(* is rebuilt by StorageEngine::with_capacity_and_rate.                    *)
(*                                                                         *)
(* Specifications:                                                         *)
(*   Spec       the engine under put, remove, update, clear and restart,   *)
(*              with log writes that can fail;                             *)
(*   CallSpec   the engine with writes that all succeed, longer sequences; *)
(*   WalSpec    a WriteAheadLog appended to, recovered and cleared;        *)
(*   CodecSpec  WriteAheadLogEntry::serialize and deserialize;             *)
(*   BloomSpec  a BloomFilter set and queried;                             *)
(*   SstSpec    an SSTable under set, get and remove;                      *)
(*   MemSpec    a memtable::MemTable under set, get, remove and clear;     *)
(*   CapSpec    MemTable::with_capacity_and_rate on every kind of argument;*)
(*   RecoverSpec  WriteAheadLog::recover followed iteration by iteration.  *)
(*                                                                         *)
(* The module also models the engine of src/src/engine.rs, which keeps a   *)
(* sorted-vector MemTable (src/src/mem_table.rs) and a log of timestamped  *)
(* entries in a directory of .wal files (src/src/wal.rs):                  *)
(*   TableSpec  a mem_table::MemTable under set and delete;                *)
(*   LogSpec    Wal values written and flushed, the directory loaded;      *)
(*   StoreSpec  an engine::StorageEngine under set, delete and new;        *)
(*   StopSpec   the same engine with a process that stops inside           *)
(*              Wal::load_wal_from_dir;                                    *)
(*   ThreadSpec threads that call set on one engine behind a Mutex.        *)
(***************************************************************************)
EXTENDS Integers, Sequences, FiniteSets, TLC

VARIABLES
    running,     \* TRUE while a StorageEngine value exists (construction succeeded)
    memtable,    \* StorageEngine.memtable : MemTable
    sstables,    \* StorageEngine.sstables : Vec<SSTable>
    walFile,     \* bytes of wal/lsmdb_wal.bin
    hashIdx,     \* DefaultHasher: (key, seed) -> bit index, fixed for a process image
    last,        \* the last API call and what it returned to the caller
    appended,    \* history: records whose append returned Ok since the last truncate
    acked,       \* history: per key, the value of the last Ok put not followed by an Ok remove
    flushed,     \* history: a flush happened since the last clear
    created      \* history: the SSTables flush_memtable built since the last clear, oldest first

VARIABLES
    codec        \* an evaluation of WriteAheadLogEntry::serialize / deserialize

VARIABLES
    bloom_filter,  \* a BloomFilter used on its own
    inserted       \* history: the keys passed to BloomFilter::set since new

VARIABLES
    table,         \* a mem_table::MemTable used on its own
    ret,           \* the last call on the mem_table / wal / engine family and its result
    clock,         \* the last reading of the system clock (helper::generate_timestamp)
    dir,           \* the .wal files of the directory: file name (a timestamp) -> bytes
    wals,          \* the wal::Wal values the program holds, in order of construction
    logged,        \* history: per file, the entries passed to Wal::set / Wal::delete
    engine,        \* an engine::StorageEngine: its mem_table and its wal
    threads,       \* the threads that share the engine: where each stands, what its set returned
    mutex          \* the Mutex<StorageEngine> the threads share

vars == <<running, memtable, sstables, walFile, hashIdx, last, appended, acked, flushed,
          created, codec, bloom_filter, inserted, table, ret, clock, dir, wals,
          logged, engine, threads, mutex>>

\* the variables of each component
engineVars == <<running, memtable, sstables, walFile, last, appended, acked, flushed, created>>
codecVars == <<codec>>
bloomVars == <<bloom_filter, inserted>>
storeVars == <<table, ret, clock, dir, wals, logged, engine, threads, mutex>>

----------------------------------------------------------------------------
(* Bounds of the model *)

\* Expected number of elements of a BloomFilter made on its own.
BloomElements == 2
\* Calls of BloomFilter::set made on it.
MaxSets == 3
\* Records appended by the engine when no write to the log fails.
MaxCalls == 4
\* MemTable capacity in bytes passed to with_capacity_and_rate (SizeUnit::Bytes).
Capacity == 100
\* Length of the long value; one long entry fills the MemTable.
BigLen == 100
\* Mutating calls are issued while fewer than this many records were appended.
MaxWalRecords == 2

Bytes(b, n) == [i \in 1..n |-> b]

Keys == {<<97>>, <<98>>}
Values == {<<49>>, Bytes(50, BigLen)}

\* Option<Vec<u8>>
None == [some |-> FALSE, value |-> <<>>]
Some(v) == [some |-> TRUE, value |-> v]

----------------------------------------------------------------------------
(* write_ahead_log.rs: framing codec *)

Insert == 1
Remove == 2

\* A usize is kept as the pair << n \div 2^16, n % 2^16 >>, so that lengths
\* of 2^32 and more, and the cast of them to u32, can be written down.
usize(n) == << n \div 65536, n % 65536 >>

\* the usize as an integer, for lengths that index an actual byte string
as_int(n) == n[1] * 65536 + n[2]

\* a + b in usize arithmetic (lengths stay far below 2^64)
usize_add(a, b) ==
    << a[1] + b[1] + (a[2] + b[2]) \div 65536, (a[2] + b[2]) % 65536 >>

\* a writer that lays the four bytes out most significant first
to_be_bytes(n) ==
    << (n[1] \div 256) % 256, n[1] % 256, n[2] \div 256, n[2] % 256 >>

\* (n as u32).to_le_bytes(): the cast keeps the 32 low-order bits of n
to_le_bytes(n) ==
    << n[2] % 256, n[2] \div 256, n[1] % 256, (n[1] \div 256) % 256 >>

\* u32::from_le_bytes([d[i], d[i+1], d[i+2], d[i+3]]) as usize, i a 0-based offset
from_le_bytes(d, i) ==
    << d[i + 3] + 256 * d[i + 4], d[i + 1] + 256 * d[i + 2] >>

WriteAheadLogEntry(entry_kind, key, value) ==
    [entry_kind |-> entry_kind, key |-> key, value |-> value]

\* serialize, up to the key bytes: the 13 header bytes written for an entry
\* of the given kind whose key and value have the given lengths
serialize_header(entry_kind, key_len, value_len) ==
    LET entry_len == usize_add(usize(4 + 1 + 4 + 4), usize_add(key_len, value_len))
    IN  to_le_bytes(entry_len)
          \o << entry_kind >>
          \o to_le_bytes(key_len)
          \o to_le_bytes(value_len)

serialize(entry) ==
    serialize_header(entry.entry_kind, usize(Len(entry.key)), usize(Len(entry.value)))
        \o entry.key
        \o entry.value

\* a validation that takes any kind byte
deserialize_check_AnyKind(head, data_len) ==
    IF data_len[1] = 0 /\ data_len[2] < 13 THEN "length"
    ELSE IF data_len # from_le_bytes(head, 0) THEN "length"
    ELSE IF data_len # usize_add(usize(13),
                           usize_add(from_le_bytes(head, 5), from_le_bytes(head, 9)))
    THEN "length"
    ELSE "ok"

\* deserialize, up to the slicing: the checks made on serialized data of
\* length data_len whose first (at most 13) bytes are head.  "length" and
\* "kind" are the two InvalidInput errors, "ok" lets the slicing go ahead.
deserialize_check(head, data_len) ==
    IF data_len[1] = 0 /\ data_len[2] < 13 THEN "length"
    ELSE IF data_len # from_le_bytes(head, 0) THEN "length"
    ELSE IF head[5] \notin {Insert, Remove} THEN "kind"
    ELSE IF data_len # usize_add(usize(13),
                           usize_add(from_le_bytes(head, 5), from_le_bytes(head, 9)))
    THEN "length"
    ELSE "ok"

DeserializeErr == [ok |-> FALSE, entry |-> WriteAheadLogEntry(0, <<>>, <<>>)]

deserialize(serialized_data) ==
    LET head == SubSeq(serialized_data, 1,
                       IF Len(serialized_data) < 13 THEN Len(serialized_data) ELSE 13)
    IN  IF deserialize_check(head, usize(Len(serialized_data))) # "ok"
        THEN DeserializeErr
        ELSE LET key_len == as_int(from_le_bytes(serialized_data, 5))
             IN  [ok |-> TRUE,
                  entry |-> WriteAheadLogEntry(
                      serialized_data[5],
                      SubSeq(serialized_data, 14, 13 + key_len),
                      SubSeq(serialized_data, 14 + key_len, Len(serialized_data)))]

----------------------------------------------------------------------------
(* write_ahead_log.rs: WriteAheadLog over the file bytes *)

\* append: write_all(serialize(entry)) then flush.  `fail` makes write_all
\* return an error after `n` bytes of the record reached the file.
WriteAheadLog_append(file, entry_kind, key, value, fail, n) ==
    LET serialized_data == serialize(WriteAheadLogEntry(entry_kind, key, value))
    IN  IF fail
        THEN [ok |-> FALSE, file |-> file \o SubSeq(serialized_data, 1, n)]
        ELSE [ok |-> TRUE, file |-> file \o serialized_data]

\* a recover that stops at the first record it cannot read and returns the
\* entries it has
recover_loop_Lenient(file, pos, entries) ==
    LET serialized_data == SubSeq(file, pos + 1, Len(file))
    IN  IF serialized_data = <<>> \/ ~deserialize(serialized_data).ok
        THEN [ok |-> TRUE, entries |-> entries]
        ELSE [ok |-> TRUE, entries |-> Append(entries, deserialize(serialized_data).entry)]

\* The loop of recover: read_to_end from the handle's position, stop on an
\* empty read, otherwise deserialize everything that was read as one entry.
RECURSIVE recover_loop(_, _, _)
recover_loop(file, pos, entries) ==
    LET serialized_data == SubSeq(file, pos + 1, Len(file))
    IN  IF serialized_data = <<>>
        THEN [ok |-> TRUE, entries |-> entries]
        ELSE LET d == deserialize(serialized_data)
             IN  IF ~d.ok
                 THEN [ok |-> FALSE, entries |-> <<>>]
                 ELSE recover_loop(file, Len(file), Append(entries, d.entry))

\* recover on a freshly opened handle (read position 0)
WriteAheadLog_recover(file) == recover_loop(file, 0, <<>>)

\* a clear that forgets set_len(0)
WriteAheadLog_clear_KeepsBytes(file) == file

\* clear: set_len(0)
WriteAheadLog_clear(file) == <<>>

----------------------------------------------------------------------------
(* sst/bloom_filter.rs *)

\* ceil(-(n * ln p) / (ln 2)^2) for p = 1/2, i.e. ceil(n / ln 2)
calculate_num_bits(num_elements) ==
    (num_elements * 1442696 + 999999) \div 1000000

\* ceil((num_bits / num_elements) * ln 2)
calculate_num_hashes(num_bits, num_elements) ==
    (num_bits * 693147 + num_elements * 1000000 - 1) \div (num_elements * 1000000)

BloomFilter_new(num_elements) ==
    LET num_bits == calculate_num_bits(num_elements)
    IN  [bits |-> [i \in 0..(num_bits - 1) |-> FALSE],
         num_hashes |-> calculate_num_hashes(num_bits, num_elements),
         num_elements |-> 0]

\* calculate_hash(key, seed) % bits.len()
calculate_index(key, seed) == hashIdx[<<key, seed>>]

\* a set that writes the bit of the first hash only
BloomFilter_set_FirstHashOnly(bf, key) ==
    [bf EXCEPT
       !.bits = [i \in DOMAIN bf.bits |-> bf.bits[i] \/ calculate_index(key, 0) = i],
       !.num_elements = @ + 1]

\* a set that writes the bit of the last hash only
BloomFilter_set_LastHashOnly(bf, key) ==
    [bf EXCEPT
       !.bits = [i \in DOMAIN bf.bits |->
                    bf.bits[i] \/ calculate_index(key, bf.num_hashes - 1) = i],
       !.num_elements = @ + 1]

BloomFilter_set(bf, key) ==
    [bf EXCEPT
       !.bits = [i \in DOMAIN bf.bits |->
                    bf.bits[i] \/ \E s \in 0..(bf.num_hashes - 1) : calculate_index(key, s) = i],
       !.num_elements = @ + 1]

BloomFilter_contains(bf, key) ==
    \A s \in 0..(bf.num_hashes - 1) : bf.bits[calculate_index(key, s)]

----------------------------------------------------------------------------
(* memtable.rs *)

\* false_positive_rate = 0.5, kept as the pair numerator/denominator
FalsePositiveRate == <<1, 2>>

MemTable_with_capacity_and_rate(capacity, false_positive_rate) ==
    LET capacity_bytes == capacity
        num_elements == capacity_bytes \div 100
    IN  [entries |-> << >>,
         entry_count |-> 0,
         size |-> 0,
         capacity |-> capacity_bytes,
         bloom_filter |-> BloomFilter_new(num_elements),
         false_positive_rate |-> false_positive_rate]

\* BTreeMap::insert
MapInsert(m, key, value) ==
    [k \in DOMAIN m \cup {key} |-> IF k = key THEN value ELSE m[k]]

\* BTreeMap::remove_entry
MapRemove(m, key) == [k \in DOMAIN m \ {key} |-> m[k]]

\* a set that writes the map before it consults the filter
MemTable_set_InsertsFirst(mt, key, value) ==
    LET written == [mt EXCEPT !.entries = MapInsert(mt.entries, key, value)]
    IN  IF ~BloomFilter_contains(mt.bloom_filter, key)
        THEN [ok |-> TRUE,
              mt |-> [written EXCEPT !.entry_count = @ + 1,
                                     !.size = @ + Len(key) + Len(value),
                                     !.bloom_filter = BloomFilter_set(mt.bloom_filter, key)]]
        ELSE [ok |-> FALSE, mt |-> written]

\* a set that refuses a key only when the map holds it
MemTable_set_ChecksMap(mt, key, value) ==
    IF key \notin DOMAIN mt.entries
    THEN [ok |-> TRUE,
          mt |-> [mt EXCEPT !.entries = MapInsert(mt.entries, key, value),
                            !.entry_count = @ + 1,
                            !.size = @ + Len(key) + Len(value),
                            !.bloom_filter = BloomFilter_set(mt.bloom_filter, key)]]
    ELSE [ok |-> FALSE, mt |-> mt]

\* a set that does not tell the filter of the key it inserted
MemTable_set_SkipsFilter(mt, key, value) ==
    IF ~BloomFilter_contains(mt.bloom_filter, key)
    THEN [ok |-> TRUE,
          mt |-> [mt EXCEPT !.entries = MapInsert(mt.entries, key, value),
                            !.entry_count = @ + 1,
                            !.size = @ + Len(key) + Len(value)]]
    ELSE [ok |-> FALSE, mt |-> mt]

MemTable_set(mt, key, value) ==
    IF ~BloomFilter_contains(mt.bloom_filter, key)
    THEN [ok |-> TRUE,
          mt |-> [mt EXCEPT !.entries = MapInsert(mt.entries, key, value),
                            !.entry_count = @ + 1,
                            !.size = @ + Len(key) + Len(value),
                            !.bloom_filter = BloomFilter_set(mt.bloom_filter, key)]]
    ELSE [ok |-> FALSE, mt |-> mt]

MemTable_get(mt, key) ==
    IF ~BloomFilter_contains(mt.bloom_filter, key) THEN None
    ELSE IF key \in DOMAIN mt.entries THEN Some(mt.entries[key]) ELSE None

\* a remove that counts an entry down whether or not it found one
MemTable_remove_CountsDown(mt, key) ==
    IF key \in DOMAIN mt.entries /\ BloomFilter_contains(mt.bloom_filter, key)
    THEN [removed |-> Some(mt.entries[key]),
          mt |-> [mt EXCEPT !.entries = MapRemove(mt.entries, key),
                            !.entry_count = @ - 1,
                            !.size = @ - (Len(key) + Len(mt.entries[key]))]]
    ELSE [removed |-> None, mt |-> [mt EXCEPT !.entry_count = @ - 1]]

\* returns the removed value (Option) and the MemTable afterwards
MemTable_remove(mt, key) ==
    IF ~BloomFilter_contains(mt.bloom_filter, key) THEN [removed |-> None, mt |-> mt]
    ELSE IF key \in DOMAIN mt.entries
    THEN [removed |-> Some(mt.entries[key]),
          mt |-> [mt EXCEPT !.entries = MapRemove(mt.entries, key),
                            !.entry_count = @ - 1,
                            !.size = @ - (Len(key) + Len(mt.entries[key]))]]
    ELSE [removed |-> None, mt |-> mt]

\* a clear that empties the map and leaves the byte count
MemTable_clear_KeepsSize(mt) ==
    [mt EXCEPT !.entries = << >>, !.entry_count = 0]

MemTable_clear(mt) ==
    [mt EXCEPT !.entries = << >>, !.entry_count = 0, !.size = 0]

\* size(): self.size / self.size_unit.to_bytes(1), size_unit always Bytes
MemTable_size(mt) == mt.size \div 1

----------------------------------------------------------------------------
(* sst/sstable.rs over sst/sst_block.rs *)

\* Block: the key index with the value each offset leads to, and data.len()
BLOCK_SIZE == 4096

Block_new == [index |-> << >>, used |-> 0]

Block_is_full(block, entry_size) == block.used + entry_size > BLOCK_SIZE

Block_set_entry(block, key, value) ==
    LET entry_size == 4 + Len(key) + Len(value)
    IN  IF block.used + entry_size > BLOCK_SIZE
        THEN [ok |-> FALSE, block |-> block]
        ELSE [ok |-> TRUE,
              block |-> [index |-> MapInsert(block.index, key, value),
                         used |-> block.used + entry_size]]

Block_get_value(block, key) ==
    IF key \in DOMAIN block.index THEN Some(block.index[key]) ELSE None

Block_remove_entry(block, key) ==
    IF key \in DOMAIN block.index
    THEN [found |-> TRUE, block |-> [block EXCEPT !.index = MapRemove(block.index, key)]]
    ELSE [found |-> FALSE, block |-> block]

SSTable_new == [blocks |-> << >>]

SSTable_set(sst, key, value) ==
    LET blocks1 == IF sst.blocks = << >>
                      \/ Block_is_full(sst.blocks[Len(sst.blocks)], Len(key) + Len(value))
                   THEN Append(sst.blocks, Block_new)
                   ELSE sst.blocks
        r == Block_set_entry(blocks1[Len(blocks1)], key, value)
    IN  [ok |-> r.ok,
         sst |-> [blocks |-> [blocks1 EXCEPT ![Len(blocks1)] = r.block]]]

\* first hit scanning the blocks front to back
SSTable_get(sst, key) ==
    LET hits == {i \in 1..Len(sst.blocks) : Block_get_value(sst.blocks[i], key).some}
    IN  IF hits = {} THEN None
        ELSE Block_get_value(
                 sst.blocks[CHOOSE i \in hits : \A j \in hits : i <= j], key)

\* a remove that scans the blocks front to back
SSTable_remove_OldestFirst(sst, key) ==
    LET hits == {i \in 1..Len(sst.blocks) : key \in DOMAIN sst.blocks[i].index}
    IN  IF hits = {} THEN [ok |-> FALSE, sst |-> sst]
        ELSE LET i == CHOOSE i \in hits : \A j \in hits : i <= j
             IN  [ok |-> TRUE,
                  sst |-> [blocks |-> [sst.blocks EXCEPT
                             ![i] = Block_remove_entry(sst.blocks[i], key).block]]]

\* removes from the first block that holds the key, scanning back to front
SSTable_remove(sst, key) ==
    LET hits == {i \in 1..Len(sst.blocks) : key \in DOMAIN sst.blocks[i].index}
    IN  IF hits = {} THEN [ok |-> FALSE, sst |-> sst]
        ELSE LET i == CHOOSE i \in hits : \A j \in hits : i >= j
             IN  [ok |-> TRUE,
                  sst |-> [blocks |-> [sst.blocks EXCEPT
                             ![i] = Block_remove_entry(sst.blocks[i], key).block]]]

----------------------------------------------------------------------------
(* api.rs: StorageEngine.  An engine value `e` is the record of its fields  *)
(* together with the log file it writes and the history of its calls.      *)
(* The SSTable that flush_memtable builds is kept in the history; the      *)
(* engine's own list is the field sstables.                                *)

\* keys of a BTreeMap in ascending (bytewise) order; keys here are one byte long
RECURSIVE SortedKeys(_)
SortedKeys(S) ==
    IF S = {} THEN << >>
    ELSE LET k == CHOOSE x \in S : \A y \in S : x[1] <= y[1]
         IN  << k >> \o SortedKeys(S \ {k})

\* MemTable::entries()
MemTable_entries(mt) ==
    LET ks == SortedKeys(DOMAIN mt.entries)
    IN  [i \in 1..Len(ks) |-> << ks[i], mt.entries[ks[i]] >>]

RECURSIVE flush_loop(_, _, _)
flush_loop(sstable, kvs, i) ==
    IF i > Len(kvs) THEN [ok |-> TRUE, sst |-> sstable]
    ELSE LET r == SSTable_set(sstable, kvs[i][1], kvs[i][2])
         IN  IF ~r.ok THEN r ELSE flush_loop(r.sst, kvs, i + 1)

\* a flush that starts the log afresh
flush_memtable_TruncatesWal(e) ==
    LET built == flush_loop(SSTable_new, MemTable_entries(e.memtable), 1)
    IN  IF ~built.ok
        THEN [ok |-> FALSE, e |-> e]
        ELSE [ok |-> TRUE, e |-> [e EXCEPT !.memtable = MemTable_clear(e.memtable),
                                           !.created = Append(@, built.sst),
                                           !.wal = << >>]]

\* flush_memtable: a new SSTable is filled from the MemTable's entries, the
\* MemTable is cleared; the SSTable value is a local that is dropped on return.
flush_memtable(e) ==
    LET built == flush_loop(SSTable_new, MemTable_entries(e.memtable), 1)
    IN  IF ~built.ok
        THEN [ok |-> FALSE, e |-> e]
        ELSE [ok |-> TRUE, e |-> [e EXCEPT !.memtable = MemTable_clear(e.memtable),
                                           !.created = Append(@, built.sst)]]

StorageEngine_get(e, key) ==
    LET m == MemTable_get(e.memtable, key)
        hits == {i \in 1..Len(e.sstables) : SSTable_get(e.sstables[i], key).some}
    IN  IF m.some THEN m
        ELSE IF hits = {} THEN None
        ELSE SSTable_get(e.sstables[CHOOSE i \in hits : \A j \in hits : i <= j], key)

\* put in the order "MemTable insert, size check, flush"
StorageEngine_put_SetsBeforeFlush(e, key, value, fail, n) ==
    LET a == WriteAheadLog_append(e.wal, Insert, key, value, fail, n)
    IN
    IF ~a.ok THEN [result |-> "IoFailure", e |-> [e EXCEPT !.wal = a.file]]
    ELSE
      LET e1 == [e EXCEPT !.wal = a.file,
                          !.appended = Append(@, WriteAheadLogEntry(Insert, key, value))]
          full == MemTable_size(e1.memtable) >= e1.memtable.capacity
          s == MemTable_set(e1.memtable, key, value)
          e2 == [e1 EXCEPT !.memtable = s.mt]
          f == flush_memtable(e2)
      IN
      IF ~s.ok THEN [result |-> "AlreadyExists", e |-> e2]
      ELSE IF ~full THEN [result |-> "Ok", e |-> [e2 EXCEPT !.acked[key] = Some(value)]]
      ELSE IF ~f.ok THEN [result |-> "IoFailure", e |-> f.e]
      ELSE [result |-> "Ok",
            e |-> [f.e EXCEPT
                     !.memtable = MemTable_with_capacity_and_rate(
                         e1.memtable.capacity, e1.memtable.false_positive_rate),
                     !.flushed = TRUE,
                     !.acked[key] = Some(value)]]

StorageEngine_put(e, key, value, fail, n) ==
    LET a == WriteAheadLog_append(e.wal, Insert, key, value, fail, n)
    IN
    IF ~a.ok THEN [result |-> "IoFailure", e |-> [e EXCEPT !.wal = a.file]]
    ELSE
      LET e1 == [e EXCEPT !.wal = a.file,
                          !.appended = Append(@, WriteAheadLogEntry(Insert, key, value))]
          full == MemTable_size(e1.memtable) >= e1.memtable.capacity
          f == flush_memtable(e1)
      IN
      IF full /\ ~f.ok THEN [result |-> "IoFailure", e |-> f.e]
      ELSE
        LET e2 == IF full
                  THEN [f.e EXCEPT
                          !.memtable = MemTable_with_capacity_and_rate(
                              e1.memtable.capacity, e1.memtable.false_positive_rate),
                          !.flushed = TRUE]
                  ELSE e1
            s == MemTable_set(e2.memtable, key, value)
        IN
        IF ~s.ok THEN [result |-> "AlreadyExists", e |-> [e2 EXCEPT !.memtable = s.mt]]
        ELSE [result |-> "Ok",
              e |-> [e2 EXCEPT !.memtable = s.mt, !.acked[key] = Some(value)]]

StorageEngine_remove(e, key, fail, n) ==
    LET r == MemTable_remove(e.memtable, key)
        e1 == [e EXCEPT !.memtable = r.mt]
        hits == {i \in 1..Len(e.sstables) : SSTable_get(e.sstables[i], key).some}
    IN
    IF r.removed.some
    THEN LET a == WriteAheadLog_append(e1.wal, Remove, key, r.removed.value, fail, n)
         IN  IF ~a.ok THEN [result |-> "IoFailure", e |-> [e1 EXCEPT !.wal = a.file]]
             ELSE [result |-> "Ok",
                   e |-> [e1 EXCEPT
                            !.wal = a.file,
                            !.appended = Append(@, WriteAheadLogEntry(Remove, key, r.removed.value)),
                            !.acked[key] = None]]
    ELSE IF hits = {} THEN [result |-> "Ok", e |-> [e1 EXCEPT !.acked[key] = None]]
    ELSE
      LET i == CHOOSE i \in hits : \A j \in hits : i <= j
          value == SSTable_get(e.sstables[i], key).value
          rm == SSTable_remove(e.sstables[i], key)
          e2 == [e1 EXCEPT !.sstables[i] = rm.sst]
          a == WriteAheadLog_append(e2.wal, Remove, key, value, fail, n)
      IN  IF ~rm.ok THEN [result |-> "NotFound", e |-> e1]
          ELSE IF ~a.ok THEN [result |-> "IoFailure", e |-> [e2 EXCEPT !.wal = a.file]]
          ELSE [result |-> "Ok",
                e |-> [e2 EXCEPT
                         !.wal = a.file,
                         !.appended = Append(@, WriteAheadLogEntry(Remove, key, value)),
                         !.acked[key] = None]]

StorageEngine_update(e, key, value, fail1, n1, fail2, n2) ==
    LET r == StorageEngine_remove(e, key, fail1, n1)
    IN  IF r.result # "Ok" THEN r
        ELSE StorageEngine_put(r.e, key, value, fail2, n2)

RECURSIVE recover_memtable_loop(_, _, _)
recover_memtable_loop(mt, entries, i) ==
    IF i > Len(entries) THEN [ok |-> TRUE, mt |-> mt]
    ELSE IF entries[i].entry_kind = Insert
    THEN LET s == MemTable_set(mt, entries[i].key, entries[i].value)
         IN  IF ~s.ok THEN [ok |-> FALSE, mt |-> mt]
             ELSE recover_memtable_loop(s.mt, entries, i + 1)
    ELSE recover_memtable_loop(MemTable_remove(mt, entries[i].key).mt, entries, i + 1)

recover_memtable(entries, capacity, false_positive_rate) ==
    recover_memtable_loop(
        MemTable_with_capacity_and_rate(capacity, false_positive_rate), entries, 1)

\* a start that finds an SSTable holding "a" in the directory and registers it
with_capacity_and_rate_LoadsSSTable(file, capacity, false_positive_rate) ==
    LET fresh == MemTable_with_capacity_and_rate(capacity, false_positive_rate)
        entries == WriteAheadLog_recover(file)
        recovered == recover_memtable(entries.entries, capacity, false_positive_rate)
        found == << SSTable_set(SSTable_new, <<97>>, <<49>>).sst >>
    IN  IF Len(file) = 0 THEN [ok |-> TRUE, memtable |-> fresh, sstables |-> found]
        ELSE IF ~entries.ok \/ ~recovered.ok
        THEN [ok |-> FALSE, memtable |-> fresh, sstables |-> << >>]
        ELSE [ok |-> TRUE, memtable |-> recovered.mt, sstables |-> found]

\* with_capacity_and_rate on a directory whose log file holds `file`.  The file
\* exists from the first construction on (WriteAheadLog::new creates it), and a
\* missing file takes the recovery branch with nothing to read, which yields the
\* same fresh MemTable as the empty-file branch.
with_capacity_and_rate(file, capacity, false_positive_rate) ==
    LET wal_empty == Len(file) = 0
        fresh == MemTable_with_capacity_and_rate(capacity, false_positive_rate)
        entries == WriteAheadLog_recover(file)
        recovered == recover_memtable(entries.entries, capacity, false_positive_rate)
    IN  IF wal_empty THEN [ok |-> TRUE, memtable |-> fresh, sstables |-> << >>]
        ELSE IF ~entries.ok THEN [ok |-> FALSE, memtable |-> fresh, sstables |-> << >>]
        ELSE IF ~recovered.ok THEN [ok |-> FALSE, memtable |-> fresh, sstables |-> << >>]
        ELSE [ok |-> TRUE, memtable |-> recovered.mt, sstables |-> << >>]

\* clear: MemTable::clear, WriteAheadLog::clear, then a new engine on the directory
StorageEngine_clear(e) ==
    LET capacity == e.memtable.capacity
        false_positive_rate == e.memtable.false_positive_rate
        file == WriteAheadLog_clear(e.wal)
        o == with_capacity_and_rate(file, capacity, false_positive_rate)
    IN  [result |-> IF o.ok THEN "Ok" ELSE "InvalidInput",
         ok |-> o.ok,
         e |-> [memtable |-> o.memtable, sstables |-> o.sstables, wal |-> file,
                appended |-> << >>, acked |-> [k \in Keys |-> None], flushed |-> FALSE,
                created |-> << >>]]

----------------------------------------------------------------------------
(* The mutexes the engine's calls take: WriteAheadLog.log_file ("wal"),    *)
(* MemTable.entries ("entries") and BloomFilter.bits ("bits").  A guard is *)
(* released where it goes out of scope, at the return of the method that   *)
(* took it.  The lock sequence of a call is the sequence of acquisitions   *)
(* and releases it performs on the engine value e.                         *)

Acquire(l) == [lock |-> l, acq |-> TRUE]
Release(l) == [lock |-> l, acq |-> FALSE]

\* BloomFilter::contains and BloomFilter::set: self.bits.lock() for the length of the call
BloomFilter_bits_locks == << Acquire("bits"), Release("bits") >>

\* WriteAheadLog::append: self.log_file.lock() for the length of the call
WriteAheadLog_append_locks == << Acquire("wal"), Release("wal") >>

\* MemTable::set: the entries lock first, the filter inside it
MemTable_set_locks(mt, key) ==
    << Acquire("entries") >> \o BloomFilter_bits_locks
       \o (IF ~BloomFilter_contains(mt.bloom_filter, key) THEN BloomFilter_bits_locks ELSE << >>)
       \o << Release("entries") >>

\* MemTable::remove: the filter first, the entries lock if the filter reports the key
MemTable_remove_locks(mt, key) ==
    BloomFilter_bits_locks
       \o (IF BloomFilter_contains(mt.bloom_filter, key)
           THEN << Acquire("entries"), Release("entries") >> ELSE << >>)

\* MemTable::entries and MemTable::clear: self.entries.lock() for the length of the call
MemTable_entries_locks == << Acquire("entries"), Release("entries") >>

\* flush_memtable: memtable.entries(), then memtable.clear() if every sstable.set succeeded
flush_memtable_locks(e) ==
    MemTable_entries_locks
       \o (IF flush_memtable(e).ok THEN MemTable_entries_locks ELSE << >>)

StorageEngine_put_locks(e, key, value, fail, n) ==
    LET a == WriteAheadLog_append(e.wal, Insert, key, value, fail, n)
        full == MemTable_size(e.memtable) >= e.memtable.capacity
    IN  WriteAheadLog_append_locks
           \o (IF ~a.ok THEN << >>
               ELSE IF ~full THEN MemTable_set_locks(e.memtable, key)
               ELSE flush_memtable_locks(e)
                       \o (IF ~flush_memtable(e).ok THEN << >>
                           ELSE MemTable_set_locks(
                                    MemTable_with_capacity_and_rate(
                                        e.memtable.capacity, e.memtable.false_positive_rate),
                                    key)))

\* SSTable::get and SSTable::remove take no lock
StorageEngine_remove_locks(e, key, fail, n) ==
    LET r == MemTable_remove(e.memtable, key)
        hits == {i \in 1..Len(e.sstables) : SSTable_get(e.sstables[i], key).some}
    IN  MemTable_remove_locks(e.memtable, key)
           \o (IF r.removed.some \/ hits # {} THEN WriteAheadLog_append_locks ELSE << >>)

StorageEngine_update_locks(e, key, value, fail1, n1, fail2, n2) ==
    LET r == StorageEngine_remove(e, key, fail1, n1)
    IN  StorageEngine_remove_locks(e, key, fail1, n1)
           \o (IF r.result # "Ok" THEN << >>
               ELSE StorageEngine_put_locks(r.e, key, value, fail2, n2))

----------------------------------------------------------------------------

(* The state machine: one process owning one engine on one directory *)

Engine ==
    [memtable |-> memtable, sstables |-> sstables, wal |-> walFile,
     appended |-> appended, acked |-> acked, flushed |-> flushed, created |-> created]

Call(op, key, value, result) ==
    [op |-> op, key |-> key, value |-> value, result |-> result]

\* a call on a MemTable or an SSTable used on its own, its io::Result, the
\* Option it returned and the value it was made on
MemCall(op, key, value, result, returned, before) ==
    [op |-> op, key |-> key, value |-> value, result |-> result,
     returned |-> returned, before |-> before]

\* the engine fields after a call, and what the caller saw
Returns(e, call) ==
    /\ memtable' = e.memtable
    /\ sstables' = e.sstables
    /\ walFile' = e.wal
    /\ appended' = e.appended
    /\ acked' = e.acked
    /\ flushed' = e.flushed
    /\ created' = e.created
    /\ last' = call

RECURSIVE FramedLen(_)
FramedLen(entries) ==
    IF entries = << >> THEN 0
    ELSE Len(serialize(Head(entries))) + FramedLen(Tail(entries))

\* bytes of the log that belong to no completed append
TornBytes == Len(walFile) - FramedLen(appended)

\* Bytes of a record that reach the file when write_all fails: none, or a torn
\* prefix.  A log generation takes at most one torn prefix.
PartialWrites == IF TornBytes = 0 THEN {0, 1} ELSE {0}

\* outcomes of one write_all: success, or failure after n bytes
Faults == {<< FALSE, 0 >>} \cup {<< TRUE, n >> : n \in PartialWrites}

\* no codec evaluation is under way
NoCodec == [op |-> "none"]
CodecIdle == codec = NoCodec

\* no stand-alone BloomFilter exists
BloomIdle == bloom_filter = << >> /\ inserted = {}

\* no mem_table::MemTable, no call on the mem_table / wal / engine family
NoCall == [op |-> "none"]
StoreIdle ==
    /\ table = << >>
    /\ ret = NoCall
    /\ clock = 0
    /\ dir = << >>
    /\ wals = << >>
    /\ logged = << >>
    /\ engine = << >>
    /\ threads = << >>
    /\ mutex = << >>

\* no engine, no log file
EngineIdle ==
    /\ running = FALSE
    /\ memtable = << >>
    /\ sstables = << >>
    /\ walFile = << >>
    /\ last = Call("none", << >>, << >>, "Ok")
    /\ appended = << >>
    /\ acked = << >>
    /\ flushed = FALSE
    /\ created = << >>

\* The hash functions a process image can have for the engine's filter.  Bit
\* positions are interchangeable: the first probe of the first key is fixed.
EngineHashes ==
    {h \in [Keys \X (0..(BloomFilter_new(Capacity \div 100).num_hashes - 1))
              -> DOMAIN BloomFilter_new(Capacity \div 100).bits] :
        h[<< <<97>>, 0 >>] = 0}

Init ==
    /\ hashIdx \in EngineHashes
    /\ running = TRUE
    /\ memtable = MemTable_with_capacity_and_rate(Capacity, FalsePositiveRate)
    /\ sstables = << >>
    /\ walFile = << >>
    /\ last = Call("open", << >>, << >>, "Ok")
    /\ appended = << >>
    /\ acked = [k \in Keys |-> None]
    /\ flushed = FALSE
    /\ created = << >>
    /\ CodecIdle
    /\ BloomIdle
    /\ StoreIdle

put ==
    /\ running
    /\ Len(appended) < MaxWalRecords
    /\ \E key \in Keys, value \in Values, f \in Faults :
         LET r == StorageEngine_put(Engine, key, value, f[1], f[2])
         IN  Returns(r.e, Call("put", key, value, r.result))
    /\ UNCHANGED << running, hashIdx, codecVars, bloomVars, storeVars >>

remove ==
    /\ running
    /\ Len(appended) < MaxWalRecords
    /\ \E key \in Keys, f \in Faults :
         LET r == StorageEngine_remove(Engine, key, f[1], f[2])
         IN  Returns(r.e, Call("remove", key, << >>, r.result))
    /\ UNCHANGED << running, hashIdx, codecVars, bloomVars, storeVars >>

update ==
    /\ running
    /\ Len(appended) < MaxWalRecords
    /\ \E key \in Keys, value \in Values, f1 \in Faults, f2 \in Faults :
         LET r == StorageEngine_update(Engine, key, value, f1[1], f1[2], f2[1], f2[2])
         IN  Returns(r.e, Call("update", key, value, r.result))
    /\ UNCHANGED << running, hashIdx, codecVars, bloomVars, storeVars >>

clear ==
    /\ running
    /\ LET r == StorageEngine_clear(Engine)
       IN  /\ Returns(r.e, Call("clear", << >>, << >>, r.result))
           /\ running' = r.ok
    /\ UNCHANGED << hashIdx, codecVars, bloomVars, storeVars >>

\* the process stops (crash or exit) and the engine is opened again on the directory
restart ==
    /\ LET o == with_capacity_and_rate(walFile, Capacity, FalsePositiveRate)
       IN  /\ running' = o.ok
           /\ memtable' = o.memtable
           /\ sstables' = o.sstables
           /\ last' = Call("restart", << >>, << >>, IF o.ok THEN "Ok" ELSE "InvalidInput")
    /\ UNCHANGED << walFile, hashIdx, appended, acked, flushed, created, codecVars, bloomVars, storeVars >>

Next == put \/ remove \/ update \/ clear \/ restart

Spec == Init /\ [][Next]_vars

----------------------------------------------------------------------------
(* Properties of api::StorageEngine *)

\* what get(key) returns in the current state
Get(key) == StorageEngine_get(Engine, key)

\* the step is a call of put in which the MemTable was flushed
FlushingPut ==
    /\ last'.op = "put"
    /\ last'.result # "IoFailure"
    /\ MemTable_size(memtable) >= memtable.capacity

\* C1 (durability): after a restart, on a log with no torn record and with no
\* flush before it, the engine has started and get(k) returns the value of the
\* last acknowledged put of k that no acknowledged remove of k followed.
C1_Durability ==
    (last.op = "restart" /\ TornBytes = 0 /\ ~flushed)
        => (running /\ \A k \in Keys : acked[k].some => Get(k) = acked[k])

\* C2 (read your writes): right after put(k, v) whose log write did not fail,
\* get(k) returns Some(v); right after remove(k), get(k) returns None.
C2_ReadYourWrites ==
    /\ (last.op = "put" /\ last.result # "IoFailure") => Get(last.key) = Some(last.value)
    /\ last.op = "remove" => Get(last.key) = None

\* C3 (update): update(k, v2) of a key that holds a value in the MemTable, with
\* no failing log write, returns Ok and get(k) then returns Some(v2).
C3_UpdateExistingKey ==
    [][(last'.op = "update" /\ last'.result # "IoFailure"
            /\ MemTable_get(memtable, last'.key).some)
        => (/\ last'.result = "Ok"
            /\ \A k \in Keys : k = last'.key => Get(k)' = Some(last'.value))]_vars

\* C4 (flush keeps keys readable): when a put flushes the MemTable, a new
\* SSTable is registered and every flushed key other than the one being put
\* still reads its flushed value.
C4_FlushedKeysReadable ==
    [][FlushingPut
        => (/\ Len(sstables') = Len(sstables) + 1
            /\ \A k \in DOMAIN memtable.entries \ {last'.key} :
                   Get(k)' = Some(memtable.entries[k]))]_vars

\* C5 (clear): right after clear() the call returned an engine whose MemTable
\* is empty, whose log has length 0, and whose get returns None for every key.
C5_ClearEmpties ==
    last.op = "clear"
        => (/\ last.result = "Ok" /\ running
            /\ memtable.entries = << >> /\ memtable.entry_count = 0 /\ memtable.size = 0
            /\ Len(walFile) = 0
            /\ \A k \in Keys : Get(k) = None)

\* clear() has returned
C5_Witness == last.op = "clear" /\ last.result = "Ok" /\ running /\ walFile = << >>

\* C6 (WAL-MemTable agreement): while no flush happened since the last clear,
\* replaying the appended records with recover_memtable succeeds and yields
\* the entries of the live MemTable.
C6_WalMemTableAgreement ==
    (running /\ ~flushed)
        => LET r == recover_memtable(appended, Capacity, FalsePositiveRate)
           IN  r.ok /\ r.mt.entries = memtable.entries

\* C7 (recover returns the log): on a log with no torn record, recover returns
\* Ok with every appended record in append order.
C7_RecoverReturnsAppended ==
    TornBytes = 0
        => LET r == WriteAheadLog_recover(walFile)
           IN  r.ok /\ r.entries = appended

\* C8 (AlreadyExists is internal): put never returns AlreadyExists.
C8_PutNeverAlreadyExists ==
    last.op = "put" => last.result # "AlreadyExists"

\* whole-record or torn prefixes of the Insert record of (key, value)
InsertPrefixes(key, value) ==
    LET d == serialize(WriteAheadLogEntry(Insert, key, value))
    IN  {SubSeq(d, 1, n) : n \in 0..Len(d)}

\* C9 (failed put): a put that returns an error leaves get(k) unchanged for
\* every key, leaves the MemTable and the SSTables as they were, and changes
\* the log by at most (a prefix of) its own Insert record at the end.
C9_FailedPutLeavesState ==
    [][(last'.op = "put" /\ last'.result # "Ok")
        => (/\ \A k \in Keys : Get(k)' = Get(k)
            /\ memtable' = memtable
            /\ sstables' = sstables
            /\ \E d \in InsertPrefixes(last'.key, last'.value) : walFile' = walFile \o d)]_vars

\* a put was refused with AlreadyExists after its record reached the log,
\* and the key still reads its older value
C9_Witness ==
    /\ last.op = "put" /\ last.result = "AlreadyExists"
    /\ Get(last.key).some /\ Get(last.key) # Some(last.value)
    /\ Len(appended) = 2

\* C10 (log before MemTable): a put or remove whose log append failed leaves
\* the MemTable as it was.
C10_AppendFailureLeavesMemTable ==
    [][(last'.op \in {"put", "remove"} /\ last'.result = "IoFailure")
        => memtable' = memtable]_vars

\* C11 (remove of an absent key): remove(k) for a key held neither by the
\* MemTable's map nor by any SSTable returns Ok and leaves the MemTable, the
\* SSTables and the log file as they were.
C11_RemoveAbsentKey ==
    [][(/\ last'.op = "remove"
        /\ last'.key \notin DOMAIN memtable.entries
        /\ \A i \in 1..Len(sstables) : ~SSTable_get(sstables[i], last'.key).some)
        => (/\ last'.result = "Ok"
            /\ memtable' = memtable
            /\ sstables' = sstables
            /\ walFile' = walFile)]_vars

\* remove(k) has returned Ok on an engine whose only record is the Insert of
\* another key: k was absent, and the other key is still held
C11_Witness ==
    /\ last.op = "remove" /\ last.result = "Ok"
    /\ Len(appended) = 1 /\ TornBytes = 0
    /\ appended[1].entry_kind = Insert /\ appended[1].key # last.key
    /\ DOMAIN memtable.entries = {appended[1].key}

\* the map a replay of the records in order leaves: an Insert sets its key, a
\* Remove removes it
RECURSIVE ReplayedMap(_, _, _)
ReplayedMap(m, entries, i) ==
    IF i > Len(entries) THEN m
    ELSE IF entries[i].entry_kind = Insert
    THEN ReplayedMap(MapInsert(m, entries[i].key, entries[i].value), entries, i + 1)
    ELSE ReplayedMap(MapRemove(m, entries[i].key), entries, i + 1)

\* C12 (startup): a start on a log with no torn record succeeds; the MemTable
\* is empty when the log is empty, and otherwise holds what the replay of all
\* the log's records in order leaves.
C12_StartupReplaysLog ==
    (last.op = "restart" /\ TornBytes = 0)
        => (/\ running
            /\ memtable.entries = ReplayedMap(<< >>, appended, 1)
            /\ (walFile = << >> => memtable.entries = << >>))

\* the value of the newest of the given SSTables (oldest first) that holds key
NewestHolding(tables, key) ==
    LET hits == {i \in 1..Len(tables) : SSTable_get(tables[i], key).some}
    IN  IF hits = {} THEN None
        ELSE SSTable_get(tables[CHOOSE i \in hits : \A j \in hits : i >= j], key)

\* C18 (read path): get(k) returns the MemTable's value when the MemTable
\* holds k, and otherwise the value of the newest SSTable that holds k, None
\* when no SSTable holds it.
C18_GetMemTableThenNewestSSTable ==
    running
        => \A k \in Keys :
              Get(k) = IF k \in DOMAIN memtable.entries
                       THEN Some(memtable.entries[k])
                       ELSE NewestHolding(created, k)

NoRunAfterFlushAndRestart ==
    (last.op = "restart" /\ created # << >>) => ~running

\* C16 (Remove records): every Remove record the engine appended carries no
\* value: its value-length field is 0 and the frame ends with the key.
C16_RemoveRecordsCarryNoValue ==
    \A i \in 1..Len(appended) :
        appended[i].entry_kind = Remove
            => (/\ appended[i].value = << >>
                /\ SubSeq(serialize(appended[i]), 10, 13) = << 0, 0, 0, 0 >>
                /\ Len(serialize(appended[i])) = 13 + Len(appended[i].key))

----------------------------------------------------------------------------
(* The engine on a file system whose writes all succeed: longer call       *)
(* sequences than under Spec, with no failing append.                      *)

put_ok ==
    /\ running
    /\ Len(appended) < MaxCalls
    /\ \E key \in Keys, value \in Values :
         LET r == StorageEngine_put(Engine, key, value, FALSE, 0)
         IN  Returns(r.e, Call("put", key, value, r.result))
    /\ UNCHANGED << running, hashIdx, codecVars, bloomVars, storeVars >>

remove_ok ==
    /\ running
    /\ Len(appended) < MaxCalls
    /\ \E key \in Keys :
         LET r == StorageEngine_remove(Engine, key, FALSE, 0)
         IN  Returns(r.e, Call("remove", key, << >>, r.result))
    /\ UNCHANGED << running, hashIdx, codecVars, bloomVars, storeVars >>

CallNext == put_ok \/ remove_ok \/ clear \/ restart

CallSpec == Init /\ [][CallNext]_vars

\* C19 (put after remove): a put of a key that the MemTable's filter has
\* seen and the MemTable's map no longer holds (the key was put and removed
\* on this MemTable) fails with AlreadyExists and leaves the key absent, in
\* every call made before a flush, a clear or a restart replaces the MemTable.
C19_PutAfterRemoveFails ==
    [][(/\ last'.op = "put"
        /\ BloomFilter_contains(memtable.bloom_filter, last'.key)
        /\ last'.key \notin DOMAIN memtable.entries
        /\ MemTable_size(memtable) < memtable.capacity)
        => (/\ last'.result = "AlreadyExists"
            /\ \A k \in Keys : k = last'.key => Get(k)' = None
            /\ memtable' = memtable)]_vars

\* put(k), remove(k), put(k) were called in a row on one MemTable, then
\* put(k) again: the last one was refused too and k reads None
C19_Witness ==
    /\ last.op = "put" /\ last.result = "AlreadyExists"
    /\ Len(appended) = 4
    /\ appended[1].entry_kind = Insert /\ appended[1].key = last.key
    /\ appended[2].entry_kind = Remove /\ appended[2].key = last.key
    /\ appended[3].entry_kind = Insert /\ appended[3].key = last.key
    /\ appended[4].entry_kind = Insert /\ appended[4].key = last.key
    /\ ~flushed
    /\ Get(last.key) = None

----------------------------------------------------------------------------
(* A WriteAheadLog written record by record, then read back by recover or  *)
(* by a start of the engine on its directory.  A write that fails part way *)
(* is the last write to the file until it is truncated.                    *)

WalValues == {<<49>>}

WalInit ==
    /\ hashIdx \in EngineHashes
    /\ running = FALSE
    /\ memtable = MemTable_with_capacity_and_rate(Capacity, FalsePositiveRate)
    /\ sstables = << >>
    /\ walFile = << >>
    /\ last = Call("new", << >>, << >>, "Ok")
    /\ appended = << >>
    /\ acked = [k \in Keys |-> None]
    /\ flushed = FALSE
    /\ created = << >>
    /\ CodecIdle
    /\ BloomIdle
    /\ StoreIdle

\* WriteAheadLog::append; a failing write_all leaves any proper prefix of the record
wal_append ==
    /\ TornBytes = 0
    /\ Len(appended) < MaxWalRecords
    /\ \E entry_kind \in {Insert, Remove}, key \in Keys, value \in WalValues, fail \in BOOLEAN :
         \E n \in 0..(IF fail THEN 13 + Len(key) + Len(value) - 1 ELSE 0) :
           LET a == WriteAheadLog_append(walFile, entry_kind, key, value, fail, n)
           IN  /\ walFile' = a.file
               /\ appended' = IF a.ok
                               THEN Append(appended, WriteAheadLogEntry(entry_kind, key, value))
                               ELSE appended
               /\ last' = Call("append", key, value, IF a.ok THEN "Ok" ELSE "IoFailure")
    /\ UNCHANGED << running, memtable, sstables, hashIdx, acked, flushed, created,
                    codecVars, bloomVars, storeVars >>

\* WriteAheadLog::recover on a newly opened handle; the call record keeps the
\* entries that were returned
wal_recover ==
    /\ LET r == WriteAheadLog_recover(walFile)
       IN  last' = Call("recover", << >>, r.entries, IF r.ok THEN "Ok" ELSE "InvalidInput")
    /\ UNCHANGED << running, memtable, sstables, walFile, hashIdx, appended, acked, flushed,
                    created, codecVars, bloomVars, storeVars >>

\* WriteAheadLog::clear
wal_clear ==
    /\ walFile' = WriteAheadLog_clear(walFile)
    /\ appended' = << >>
    /\ last' = Call("clear", << >>, << >>, "Ok")
    /\ UNCHANGED << running, memtable, sstables, hashIdx, acked, flushed, created,
                    codecVars, bloomVars, storeVars >>

WalNext == wal_append \/ wal_recover \/ wal_clear \/ restart

WalSpec == WalInit /\ [][WalNext]_vars

\* C13 (incomplete last record): when the file ends in an incomplete record,
\* recover returns the error and no entries, and a start of the engine on
\* the directory fails.
C13_TornTailRejected ==
    TornBytes > 0
        => (/\ last.op = "recover" => (last.result = "InvalidInput" /\ last.value = << >>)
            /\ last.op = "restart" => ~running)

\* recover has returned the error on a file that holds one whole record and
\* then a record cut after its header
C13_Witness ==
    /\ last.op = "recover" /\ last.result = "InvalidInput"
    /\ Len(appended) = 1 /\ TornBytes >= 13

----------------------------------------------------------------------------
(* WriteAheadLogEntry::serialize and deserialize as functions: the inputs  *)
(* are drawn at the start, the steps apply the functions.                  *)

CodecKeys == {<< >>, <<97>>, <<97, 98>>}
CodecValues == {<< >>, <<49>>, Bytes(50, BigLen), Bytes(51, 243)}

CodecEntries ==
    {WriteAheadLogEntry(entry_kind, key, value) :
        entry_kind \in {Insert, Remove}, key \in CodecKeys, value \in CodecValues}

\* bytes written over a header byte of a well-formed record
PatchBytes == {0, 1, 2, 3, 13, 14, 15, 16, 255}

\* Byte strings handed to deserialize: the serialized form of a short entry,
\* as it is, cut short, one byte longer, with one header byte overwritten, or
\* with one byte moved from the value length to the key length.
CodecData ==
    LET whole == {serialize(e) : e \in {x \in CodecEntries : Len(x.value) <= 1}}
    IN  UNION {
          {d}
            \cup {SubSeq(d, 1, n) : n \in 0..(Len(d) - 1)}
            \cup {d \o << 0 >>}
            \cup {[d EXCEPT ![i] = b] : i \in 1..13, b \in PatchBytes}
            \cup (IF d[10] > 0 THEN {[d EXCEPT ![6] = @ + 1, ![10] = @ - 1]} ELSE {})
          : d \in whole}

\* Lengths of keys and values too long to be written out, up to the 2^32 - 1
\* bytes a key or a value may have; the entry is then known by its kind and
\* the two lengths, its serialized form by the 13 header bytes and its length.
SizedKeyLens == {usize(1), << 65535, 65522 >>, << 65535, 65523 >>, << 65535, 65535 >>}
SizedValueLens == {usize(0), usize(1), << 65535, 65535 >>}

CodecInputs ==
    {[op |-> "entry", entry |-> e] : e \in CodecEntries}
      \cup {[op |-> "data", data |-> d] : d \in CodecData}
      \cup {[op |-> "sized", entry_kind |-> k, key_len |-> kl, value_len |-> vl] :
               k \in {Insert, Remove}, kl \in SizedKeyLens, vl \in SizedValueLens}

CodecInit ==
    /\ codec \in CodecInputs
    /\ EngineIdle
    /\ hashIdx = << >>
    /\ StoreIdle
    /\ BloomIdle

\* entry.serialize()
codec_serialize ==
    /\ codec.op = "entry"
    /\ codec' = [op |-> "serialized", entry |-> codec.entry, data |-> serialize(codec.entry)]
    /\ UNCHANGED << engineVars, hashIdx, bloomVars, storeVars >>

\* WriteAheadLogEntry::deserialize(&data), of serialized or of given bytes
codec_deserialize ==
    /\ codec.op \in {"serialized", "data"}
    /\ codec' = [op |-> "deserialized",
                 of |-> codec.op,
                 entry |-> IF codec.op = "serialized" THEN codec.entry ELSE DeserializeErr.entry,
                 data |-> codec.data,
                 out |-> deserialize(codec.data)]
    /\ UNCHANGED << engineVars, hashIdx, bloomVars, storeVars >>

\* serialize of an entry known by its lengths
codec_serialize_sized ==
    /\ codec.op = "sized"
    /\ codec' = [op |-> "sized_serialized",
                 entry_kind |-> codec.entry_kind,
                 key_len |-> codec.key_len,
                 value_len |-> codec.value_len,
                 head |-> serialize_header(codec.entry_kind, codec.key_len, codec.value_len),
                 data_len |-> usize_add(usize(13), usize_add(codec.key_len, codec.value_len))]
    /\ UNCHANGED << engineVars, hashIdx, bloomVars, storeVars >>

\* deserialize of that serialized form: its checks, and the length of the key it slices
codec_deserialize_sized ==
    /\ codec.op = "sized_serialized"
    /\ codec' = [op |-> "sized_deserialized",
                 entry_kind |-> codec.entry_kind,
                 key_len |-> codec.key_len,
                 value_len |-> codec.value_len,
                 data_len |-> codec.data_len,
                 check |-> deserialize_check(codec.head, codec.data_len),
                 kind_out |-> codec.head[5],
                 key_len_out |-> from_le_bytes(codec.head, 5)]
    /\ UNCHANGED << engineVars, hashIdx, bloomVars, storeVars >>

CodecNext ==
    codec_serialize \/ codec_deserialize \/ codec_serialize_sized \/ codec_deserialize_sized

CodecSpec == CodecInit /\ [][CodecNext]_vars

\* deserialize(serialize(entry)) gave back the entry
RoundTripOk ==
    /\ (codec.op = "deserialized" /\ codec.of = "serialized")
          => (codec.out.ok /\ codec.out.entry = codec.entry)
    /\ codec.op = "sized_deserialized"
          => (/\ codec.check = "ok"
              /\ codec.kind_out = codec.entry_kind
              /\ codec.key_len_out = codec.key_len)

\* the serialized form is 13 + len(key) + len(value) bytes long
SerializedLength ==
    codec.op = "serialized"
        => Len(codec.data) = 13 + Len(codec.entry.key) + Len(codec.entry.value)

\* the serialized form is 2^32 bytes long or longer
Over4GiB == codec.op = "sized_deserialized" /\ codec.data_len[1] >= 65536

Rejected(d) ==
    \/ Len(d) < 13
    \/ from_le_bytes(d, 0) # usize(Len(d))
    \/ d[5] \notin {1, 2}
    \/ usize_add(usize(13), usize_add(from_le_bytes(d, 5), from_le_bytes(d, 9)))
           # from_le_bytes(d, 0)

\* C15 (framing validation): deserialize returns the error for every input
\* with one of the four faults, and Ok for every input with none of them.
C15_DeserializeRejects ==
    codec.op = "deserialized" => (codec.out.ok <=> ~Rejected(codec.data))

\* deserialize has refused bytes whose only fault is in the key and value
\* lengths: 13 bytes or more, entry-length field equal to the number of
\* bytes, kind 1 or 2
C15_Witness ==
    /\ codec.op = "deserialized" /\ codec.of = "data" /\ ~codec.out.ok
    /\ Len(codec.data) >= 13
    /\ from_le_bytes(codec.data, 0) = usize(Len(codec.data))
    /\ codec.data[5] \in {1, 2}

----------------------------------------------------------------------------
(* A BloomFilter used on its own: new, then set and contains in any order  *)

BloomKeys == {<<97>>, <<98>>, <<99>>}

BloomInit ==
    /\ bloom_filter = BloomFilter_new(BloomElements)
    /\ inserted = {}
    /\ hashIdx \in [BloomKeys \X (0..(BloomFilter_new(BloomElements).num_hashes - 1))
                      -> DOMAIN BloomFilter_new(BloomElements).bits]
    /\ EngineIdle
    /\ CodecIdle
    /\ StoreIdle

\* BloomFilter::set(&key)
bloom_set ==
    /\ bloom_filter.num_elements < MaxSets
    /\ \E key \in BloomKeys :
         /\ bloom_filter' = BloomFilter_set(bloom_filter, key)
         /\ inserted' = inserted \cup {key}
         /\ last' = Call("set", key, << >>, "Ok")
    /\ UNCHANGED << running, memtable, sstables, walFile, appended, acked, flushed,
                    created, hashIdx, codecVars, storeVars >>

\* BloomFilter::contains(&key)
bloom_contains ==
    /\ \E key \in BloomKeys :
         last' = Call("contains", key, << >>,
                      IF BloomFilter_contains(bloom_filter, key) THEN "true" ELSE "false")
    /\ UNCHANGED << running, memtable, sstables, walFile, appended, acked, flushed,
                    created, hashIdx, codecVars, bloomVars, storeVars >>

BloomNext == bloom_set \/ bloom_contains

BloomSpec == BloomInit /\ [][BloomNext]_vars

\* C17 (no false negative): contains(key) is true for every key passed to
\* set since the filter was made, in every state and in every answer given.
C17_NoFalseNegative ==
    /\ \A key \in inserted : BloomFilter_contains(bloom_filter, key)
    /\ (last.op = "contains" /\ last.key \in inserted) => last.result = "true"

\* contains has answered true for a key that was set, in a filter that holds
\* two keys and still has a clear bit
C17_Witness ==
    /\ last.op = "contains" /\ last.key \in inserted /\ last.result = "true"
    /\ Cardinality(inserted) = 2
    /\ \E i \in DOMAIN bloom_filter.bits : ~bloom_filter.bits[i]

----------------------------------------------------------------------------
(* SstSpec: an SSTable used on its own: new, then set, get and remove in   *)
(* any order, with values large enough that a block fills up and the same  *)
(* key can come to stand in several blocks.                                *)

\* Calls of set on the SSTable.
MaxSstSets == 3

SstKeys == {<<97>>, <<98>>}
\* a short value, and two values of half a block
SstValues == {<<51>>, Bytes(49, BLOCK_SIZE \div 2), Bytes(50, BLOCK_SIZE \div 2)}

\* the SSTable is sstables[1]
SSTable_self == sstables[1]

SstInit ==
    /\ sstables = << SSTable_new >>
    /\ last = MemCall("new", << >>, << >>, "Ok", None, << >>)
    /\ created = << >>
    /\ running = FALSE
    /\ memtable = << >>
    /\ walFile = << >>
    /\ appended = << >>
    /\ acked = << >>
    /\ flushed = FALSE
    /\ hashIdx = << >>
    /\ CodecIdle
    /\ BloomIdle
    /\ StoreIdle

\* created counts the calls of set
sst_set ==
    /\ Len(created) < MaxSstSets
    /\ \E key \in SstKeys, value \in SstValues :
         /\ sstables' = << SSTable_set(SSTable_self, key, value).sst >>
         /\ last' = MemCall("set", key, value,
                            IF SSTable_set(SSTable_self, key, value).ok THEN "Ok" ELSE "Other",
                            None, SSTable_self)
         /\ created' = Append(created, key)
    /\ UNCHANGED << running, memtable, walFile, appended, acked, flushed,
                    hashIdx, codecVars, bloomVars, storeVars >>

sst_get ==
    /\ \E key \in SstKeys :
         last' = MemCall("get", key, << >>, "Ok", SSTable_get(SSTable_self, key), SSTable_self)
    /\ UNCHANGED << running, memtable, sstables, walFile, appended, acked, flushed, created,
                    hashIdx, codecVars, bloomVars, storeVars >>

sst_remove ==
    /\ \E key \in SstKeys :
         /\ sstables' = << SSTable_remove(SSTable_self, key).sst >>
         /\ last' = MemCall("remove", key, << >>,
                            IF SSTable_remove(SSTable_self, key).ok THEN "Ok" ELSE "NotFound",
                            None, SSTable_self)
    /\ UNCHANGED << running, memtable, walFile, appended, acked, flushed, created,
                    hashIdx, codecVars, bloomVars, storeVars >>

SstNext == sst_set \/ sst_get \/ sst_remove

SstSpec == SstInit /\ [][SstNext]_vars

\* the blocks of the SSTable that hold the key
Holding(sst, key) == {i \in 1..Len(sst.blocks) : key \in DOMAIN sst.blocks[i].index}

\* C35: get(k) returns the value of the oldest block that holds k, None if no
\* block holds it; remove(k) takes k out of the newest block that holds it,
\* leaves every other block as it was and returns Ok; when no block holds k
\* it returns NotFound and the SSTable is as it was; after a successful
\* remove(k) of a key that one block held, get(k) returns None.
C35_GetOldestRemoveNewest ==
    /\ last.op = "get" =>
          /\ \A i \in Holding(last.before, last.key) :
                (\A j \in Holding(last.before, last.key) : i <= j) =>
                    last.returned = Some(last.before.blocks[i].index[last.key])
          /\ Holding(last.before, last.key) = {} => last.returned = None
    /\ last.op = "remove" =>
          /\ last.result = (IF Holding(last.before, last.key) = {} THEN "NotFound" ELSE "Ok")
          /\ last.result = "NotFound" => SSTable_self = last.before
          /\ Len(SSTable_self.blocks) = Len(last.before.blocks)
          /\ \A i \in Holding(last.before, last.key) :
                IF \A j \in Holding(last.before, last.key) : i >= j
                THEN /\ last.key \notin DOMAIN SSTable_self.blocks[i].index
                     /\ \A k \in SstKeys \ {last.key} :
                           Block_get_value(SSTable_self.blocks[i], k)
                              = Block_get_value(last.before.blocks[i], k)
                ELSE SSTable_self.blocks[i] = last.before.blocks[i]
          /\ \A i \in 1..Len(last.before.blocks) :
                i \notin Holding(last.before, last.key) =>
                    SSTable_self.blocks[i] = last.before.blocks[i]
          /\ Cardinality(Holding(last.before, last.key)) = 1 =>
                SSTable_get(SSTable_self, last.key) = None

\* a remove of a key that two of three blocks held: the newer one lost it
C35_Witness ==
    /\ last.op = "remove" /\ last.result = "Ok"
    /\ Len(last.before.blocks) = 3
    /\ Holding(last.before, last.key) = {1, 3}
    /\ Holding(SSTable_self, last.key) = {1}

\* a get of a key that two blocks held with different values
C35_GetOfKeyHeldTwice ==
    /\ last.op = "get" /\ last.returned.some
    /\ Cardinality(Holding(last.before, last.key)) = 2
    /\ \E i, j \in Holding(last.before, last.key) :
          last.before.blocks[i].index[last.key] # last.before.blocks[j].index[last.key]

\* a remove of a key held once, in an SSTable that holds another key
C35_RemoveOfKeyHeldOnce ==
    /\ last.op = "remove" /\ last.result = "Ok"
    /\ Cardinality(Holding(last.before, last.key)) = 1
    /\ \E k \in SstKeys : Holding(SSTable_self, k) # {}

\* a remove of a key that no block of a non-empty SSTable held
C35_RemoveNotFound ==
    /\ last.op = "remove" /\ last.result = "NotFound"
    /\ \E k \in SstKeys : Holding(SSTable_self, k) # {}

----------------------------------------------------------------------------
(* MemSpec: a memtable::MemTable used on its own: with_capacity_and_rate,  *)
(* then set, get, remove and clear in any order, under every hash function *)
(* its filter can have.                                                    *)

MemKeys == {<<97>>, <<98>>, <<97, 98>>}
MemValues == {<<49>>, <<49, 50>>}

\* The hash functions of the filter of a MemTable of Capacity bytes; bit
\* positions are interchangeable, the first probe of the first key is fixed.
MemHashes ==
    {h \in [MemKeys \X (0..(BloomFilter_new(Capacity \div 100).num_hashes - 1))
              -> DOMAIN BloomFilter_new(Capacity \div 100).bits] :
        h[<< <<97>>, 0 >>] = 0}

MemInit ==
    /\ hashIdx \in MemHashes
    /\ memtable = MemTable_with_capacity_and_rate(Capacity, FalsePositiveRate)
    /\ last = MemCall("new", << >>, << >>, "Ok", None, << >>)
    /\ running = FALSE
    /\ sstables = << >>
    /\ walFile = << >>
    /\ appended = << >>
    /\ acked = << >>
    /\ flushed = FALSE
    /\ created = << >>
    /\ CodecIdle
    /\ BloomIdle
    /\ StoreIdle

mem_set ==
    /\ \E key \in MemKeys, value \in MemValues :
         /\ memtable' = MemTable_set(memtable, key, value).mt
         /\ last' = MemCall("set", key, value,
                            IF MemTable_set(memtable, key, value).ok
                            THEN "Ok" ELSE "AlreadyExists",
                            None, memtable)
    /\ UNCHANGED << running, sstables, walFile, appended, acked, flushed, created,
                    hashIdx, codecVars, bloomVars, storeVars >>

mem_get ==
    /\ \E key \in MemKeys :
         last' = MemCall("get", key, << >>, "Ok", MemTable_get(memtable, key), memtable)
    /\ UNCHANGED << running, memtable, sstables, walFile, appended, acked, flushed, created,
                    hashIdx, codecVars, bloomVars, storeVars >>

mem_remove ==
    /\ \E key \in MemKeys :
         /\ memtable' = MemTable_remove(memtable, key).mt
         /\ last' = MemCall("remove", key, << >>, "Ok",
                            MemTable_remove(memtable, key).removed, memtable)
    /\ UNCHANGED << running, sstables, walFile, appended, acked, flushed, created,
                    hashIdx, codecVars, bloomVars, storeVars >>

mem_clear ==
    /\ memtable' = MemTable_clear(memtable)
    /\ last' = MemCall("clear", << >>, << >>, "Ok", None, memtable)
    /\ UNCHANGED << running, sstables, walFile, appended, acked, flushed, created,
                    hashIdx, codecVars, bloomVars, storeVars >>

MemNext == mem_set \/ mem_get \/ mem_remove \/ mem_clear

MemSpec == MemInit /\ [][MemNext]_vars

\* sum of len(key) + len(value) over the entries of the ordered map
RECURSIVE MapBytes(_, _)
MapBytes(m, keys) ==
    IF keys = {} THEN 0
    ELSE LET k == CHOOSE x \in keys : TRUE
         IN  Len(k) + Len(m[k]) + MapBytes(m, keys \ {k})

\* the MemTable after remove(k) for each k of keys
RECURSIVE RemoveEach(_, _)
RemoveEach(mt, keys) ==
    IF keys = {} THEN mt
    ELSE LET k == CHOOSE x \in keys : TRUE
         IN  RemoveEach(MemTable_remove(mt, k).mt, keys \ {k})

\* C32: after any sequence of set, remove and clear, entry_count is the
\* number of entries of the ordered map and size is the sum of len(key) +
\* len(value) over them; removing every key the map holds empties the map
\* and brings entry_count and size back to 0.
C32_Accounting ==
    /\ memtable.entry_count = Cardinality(DOMAIN memtable.entries)
    /\ memtable.size = MapBytes(memtable.entries, DOMAIN memtable.entries)
    /\ MemTable_size(memtable) = memtable.size
    /\ LET emptied == RemoveEach(memtable, DOMAIN memtable.entries)
       IN  /\ DOMAIN emptied.entries = {}
           /\ emptied.entry_count = 0
           /\ emptied.size = 0

\* a remove that took one of two entries out of the map
C32_Witness ==
    /\ last.op = "remove" /\ last.returned.some
    /\ last.before.entry_count = 2
    /\ memtable.entry_count = 1
    /\ memtable.size > 0
    /\ memtable.size < last.before.size

\* the map emptied by removes, after two sets
C32_RemovedAll ==
    /\ last.op = "remove" /\ last.returned.some
    /\ memtable.bloom_filter.num_elements = 2
    /\ memtable.entry_count = 0 /\ memtable.size = 0

\* C33: set(k, v) returns AlreadyExists exactly when the filter reports k,
\* and then the MemTable (map, entry_count, size, filter) is as it was;
\* otherwise it returns Ok, the map gains (k, v), entry_count grows by 1,
\* size by len(k) + len(v), and the filter reports k afterwards.
C33_SetAlreadyExists ==
    last.op = "set" =>
        /\ last.result \in {"Ok", "AlreadyExists"}
        /\ last.result = "AlreadyExists"
              <=> BloomFilter_contains(last.before.bloom_filter, last.key)
        /\ last.result = "AlreadyExists" => memtable = last.before
        /\ last.result = "Ok" =>
              /\ last.key \notin DOMAIN last.before.entries
              /\ memtable.entries = MapInsert(last.before.entries, last.key, last.value)
              /\ memtable.entry_count = last.before.entry_count + 1
              /\ memtable.size = last.before.size + Len(last.key) + Len(last.value)
              /\ memtable.bloom_filter = BloomFilter_set(last.before.bloom_filter, last.key)
              /\ BloomFilter_contains(memtable.bloom_filter, last.key)
              /\ memtable.capacity = last.before.capacity
              /\ memtable.false_positive_rate = last.before.false_positive_rate

\* a set refused for a key the map does not hold and never held, while the
\* map holds another key
C33_Witness ==
    /\ last.op = "set" /\ last.result = "AlreadyExists"
    /\ last.key \notin DOMAIN memtable.entries
    /\ memtable.bloom_filter.num_elements = 1
    /\ memtable.entry_count = 1
    /\ memtable = last.before

\* a second set accepted
C33_SetAccepted ==
    /\ last.op = "set" /\ last.result = "Ok"
    /\ memtable.entry_count = 2

\* C34: in every state of the MemTable the filter reports every key of the
\* ordered map, so get(k) returns the stored value and remove(k) returns
\* and removes the stored pair for every key k the map holds: the filter
\* short-circuit never hides an entry.
C34_MapKeysInFilter ==
    /\ \A k \in DOMAIN memtable.entries :
          /\ BloomFilter_contains(memtable.bloom_filter, k)
          /\ MemTable_get(memtable, k) = Some(memtable.entries[k])
          /\ MemTable_remove(memtable, k).removed = Some(memtable.entries[k])
    /\ (last.op \in {"get", "remove"} /\ last.key \in DOMAIN last.before.entries) =>
          last.returned = Some(last.before.entries[last.key])
    /\ last.op = "remove" => last.key \notin DOMAIN memtable.entries

\* a get that found the value of a key in a map of two entries
C34_Witness ==
    /\ last.op = "get"
    /\ last.key \in DOMAIN memtable.entries
    /\ last.returned = Some(memtable.entries[last.key])
    /\ memtable.entry_count = 2

\* a remove that found its key
C34_RemoveFound ==
    /\ last.op = "remove"
    /\ last.key \in DOMAIN last.before.entries
    /\ last.returned.some

----------------------------------------------------------------------------
(* mem_table.rs: MemTable, a vector of entries kept sorted by key, and the *)
(* byte size of what it holds.  Vec indices are 0-based in the source and  *)
(* in get_index; sequences here are 1-based, so entries[id + 1] is the     *)
(* source's entries[id].                                                   *)

\* Ord for [u8]: lexicographic comparison of two byte strings
RECURSIVE slice_cmp(_, _)
slice_cmp(a, b) ==
    IF a = << >> /\ b = << >> THEN "Equal"
    ELSE IF a = << >> THEN "Less"
    ELSE IF b = << >> THEN "Greater"
    ELSE IF a[1] < b[1] THEN "Less"
    ELSE IF a[1] > b[1] THEN "Greater"
    ELSE slice_cmp(Tail(a), Tail(b))

new_memtable_entry(key, value, timestamp, deleted) ==
    [key |-> key, value |-> value, timestamp |-> timestamp, deleted |-> deleted]

\* MemTable::new
mem_table_new == [entries |-> << >>, size |-> 0]

\* slice::binary_search_by_key over entries[left..right], comparing entry.key with key
RECURSIVE binary_search_by_key(_, _, _, _)
binary_search_by_key(entries, key, left, right) ==
    IF left >= right THEN [ok |-> FALSE, id |-> left]
    ELSE LET mid == left + ((right - left) \div 2)
             cmp == slice_cmp(entries[mid + 1].key, key)
         IN  IF cmp = "Less" THEN binary_search_by_key(entries, key, mid + 1, right)
             ELSE IF cmp = "Greater" THEN binary_search_by_key(entries, key, left, mid)
             ELSE [ok |-> TRUE, id |-> mid]

\* MemTable::get_index: Ok(id) of the entry with the key, or Err(id) where it belongs
get_index(mt, key) == binary_search_by_key(mt.entries, key, 0, Len(mt.entries))

\* Vec::insert(id, entry)
Vec_insert(v, id, entry) == SubSeq(v, 1, id) \o << entry >> \o SubSeq(v, id + 1, Len(v))

mem_table_set_Pushes(mt, key, value, timestamp) ==
    LET memtable_entry == new_memtable_entry(key, Some(value), timestamp, FALSE)
        r == get_index(mt, key)
    IN  IF r.ok
        THEN [entries |-> [mt.entries EXCEPT ![r.id + 1] = memtable_entry],
              size |-> mt.size]
        ELSE [entries |-> Append(mt.entries, memtable_entry),
              size |-> mt.size + Len(key) + Len(value) + 16 + 1]

\* MemTable::set
mem_table_set(mt, key, value, timestamp) ==
    LET memtable_entry == new_memtable_entry(key, Some(value), timestamp, FALSE)
        r == get_index(mt, key)
    IN  IF r.ok
        THEN LET stored_value == mt.entries[r.id + 1].value
                 size == IF stored_value.some
                         THEN IF Len(value) < Len(stored_value.value)
                              THEN mt.size - (Len(stored_value.value) - Len(value))
                              ELSE mt.size + (Len(value) - Len(stored_value.value))
                         ELSE mt.size + Len(value)
             IN  [entries |-> [mt.entries EXCEPT ![r.id + 1] = memtable_entry],
                  size |-> size]
        ELSE [entries |-> Vec_insert(mt.entries, r.id, memtable_entry),
              size |-> mt.size + Len(key) + Len(value) + 16 + 1]

\* MemTable::get: the entry with the key (tombstones included), or None
mem_table_get(mt, key) ==
    LET r == get_index(mt, key)
    IN  IF r.ok THEN [some |-> TRUE, entry |-> mt.entries[r.id + 1]]
        ELSE [some |-> FALSE]

mem_table_delete_AtFront(mt, key, timestamp) ==
    LET memtable_entry == new_memtable_entry(key, None, timestamp, TRUE)
        r == get_index(mt, key)
    IN  IF r.ok
        THEN [entries |-> [mt.entries EXCEPT ![1] = memtable_entry],
              size |-> mt.size]
        ELSE [entries |-> Vec_insert(mt.entries, 0, memtable_entry),
              size |-> mt.size + Len(key) + 16 + 1]

mem_table_delete_KeepsSize(mt, key, timestamp) ==
    LET memtable_entry == new_memtable_entry(key, None, timestamp, TRUE)
        r == get_index(mt, key)
    IN  IF r.ok
        THEN [entries |-> [mt.entries EXCEPT ![r.id + 1] = memtable_entry],
              size |-> mt.size]
        ELSE [entries |-> Vec_insert(mt.entries, r.id, memtable_entry),
              size |-> mt.size + Len(key) + 16 + 1]

mem_table_delete_SkipsAbsent(mt, key, timestamp) ==
    LET memtable_entry == new_memtable_entry(key, None, timestamp, TRUE)
        r == get_index(mt, key)
    IN  IF r.ok
        THEN LET existed_value == mt.entries[r.id + 1].value
             IN  [entries |-> [mt.entries EXCEPT ![r.id + 1] = memtable_entry],
                  size |-> IF existed_value.some
                           THEN mt.size - Len(existed_value.value)
                           ELSE mt.size]
        ELSE mt

\* MemTable::delete
mem_table_delete(mt, key, timestamp) ==
    LET memtable_entry == new_memtable_entry(key, None, timestamp, TRUE)
        r == get_index(mt, key)
    IN  IF r.ok
        THEN LET existed_value == mt.entries[r.id + 1].value
             IN  [entries |-> [mt.entries EXCEPT ![r.id + 1] = memtable_entry],
                  size |-> IF existed_value.some
                           THEN mt.size - Len(existed_value.value)
                           ELSE mt.size]
        ELSE [entries |-> Vec_insert(mt.entries, r.id, memtable_entry),
              size |-> mt.size + Len(key) + 16 + 1]

----------------------------------------------------------------------------
(* TableSpec: a mem_table::MemTable under any sequence of set and delete,  *)
(* with keys of different lengths given in any order and timestamps that   *)
(* need not increase.                                                      *)

\* Timestamps passed to set and delete are 0..MaxTimestamp.
MaxTimestamp == 1
Timestamps == 0..MaxTimestamp

TableKeys == {<<97>>, <<97, 98>>, <<98>>}
TableValues == {<< >>, <<49>>, <<49, 50>>}

\* no directory of .wal files, no Wal
\* no thread shares an engine
ThreadsIdle == threads = << >> /\ mutex = << >>
threadVars == <<threads, mutex>>
LogIdle ==
    /\ clock = 0 /\ dir = << >> /\ wals = << >> /\ logged = << >> /\ engine = << >>
    /\ ThreadsIdle
logVars == <<clock, dir, wals, logged, engine, threadVars>>

TableInit ==
    /\ table = mem_table_new
    /\ ret = [op |-> "new"]
    /\ LogIdle
    /\ EngineIdle
    /\ hashIdx = << >>
    /\ CodecIdle
    /\ BloomIdle

\* ret.before is the MemTable the call was made on
table_set ==
    /\ \E key \in TableKeys, value \in TableValues, timestamp \in Timestamps :
         /\ table' = mem_table_set(table, key, value, timestamp)
         /\ ret' = [op |-> "set", key |-> key, value |-> value, timestamp |-> timestamp,
                    before |-> table]
    /\ UNCHANGED << engineVars, hashIdx, codecVars, bloomVars, logVars >>

table_delete ==
    /\ \E key \in TableKeys, timestamp \in Timestamps :
         /\ table' = mem_table_delete(table, key, timestamp)
         /\ ret' = [op |-> "delete", key |-> key, timestamp |-> timestamp,
                    before |-> table]
    /\ UNCHANGED << engineVars, hashIdx, codecVars, bloomVars, logVars >>

TableNext == table_set \/ table_delete

TableSpec == TableInit /\ [][TableNext]_vars

\* bytes an entry accounts for: key, timestamp (16), tombstone flag (1), value if any
EntrySize(entry) ==
    Len(entry.key) + 16 + 1 + (IF entry.value.some THEN Len(entry.value.value) ELSE 0)

RECURSIVE EntriesSize(_)
EntriesSize(entries) ==
    IF entries = << >> THEN 0
    ELSE EntrySize(Head(entries)) + EntriesSize(Tail(entries))

\* C29: after any sequence of set and delete, MemTable.size is the sum over
\* the entries of len(key) + 16 + 1, plus len(value) for every entry that
\* holds a value (tombstones hold none).
C29_SizeAccounting ==
    /\ table.size = EntriesSize(table.entries)
    /\ \A i \in DOMAIN table.entries :
         table.entries[i].deleted <=> ~table.entries[i].value.some

\* a set that shortened a stored value, next to a tombstone
C29_Witness ==
    /\ ret.op = "set"
    /\ \E i \in DOMAIN ret.before.entries :
         /\ ret.before.entries[i].key = ret.key
         /\ ret.before.entries[i].value.some
         /\ Len(ret.before.entries[i].value.value) > Len(ret.value)
    /\ \E i \in DOMAIN table.entries : table.entries[i].deleted
    /\ table.size < ret.before.size

StrictlyAscending(entries) ==
    \A i \in 1..(Len(entries) - 1) :
        slice_cmp(entries[i].key, entries[i + 1].key) = "Less"

\* C30: the entries are in strictly ascending key order (so no key occurs
\* twice) after any sequence of set and delete, and a set on a key that has
\* an entry replaces that entry where it stands (value and timestamp, not
\* deleted) and leaves the other entries and their number as they were.
C30_SortedAndReplacedInPlace ==
    /\ StrictlyAscending(table.entries)
    /\ ret.op = "set" =>
         \A i \in DOMAIN ret.before.entries :
            ret.before.entries[i].key = ret.key =>
               table.entries =
                  [ret.before.entries EXCEPT
                      ![i] = new_memtable_entry(ret.key, Some(ret.value), ret.timestamp, FALSE)]

\* three entries, the last call a set on the key in the middle, which had an entry
C30_Witness ==
    /\ ret.op = "set"
    /\ Len(ret.before.entries) = 3
    /\ ret.before.entries[2].key = ret.key
    /\ ret.before.entries[2] # table.entries[2]
    /\ Len(table.entries) = 3

----------------------------------------------------------------------------
(* helper.rs and wal.rs: the directory of .wal files and the Wal values    *)
(* that write to it.  A file is named after a reading of the clock, in     *)
(* decimal; a Wal is the path of its file and the bytes its BufWriter      *)
(* holds until flush.  Entries here are far shorter than the BufWriter's   *)
(* capacity, so bytes reach the file only by flush.                        *)

\* Readings of the clock differ and increase: a reading follows the last by one.
generate_timestamp(c) == c + 1

\* u128::to_string: the decimal digits, as ASCII bytes
RECURSIVE to_string(_)
to_string(n) ==
    IF n < 10 THEN << 48 + n >>
    ELSE to_string(n \div 10) \o << 48 + (n % 10) >>

\* helper::get_files_with_ext(dir, "wal"): the files of the directory
get_files_with_ext(d) == DOMAIN d

RECURSIVE wal_files_sort_ByNumber(_)
wal_files_sort_ByNumber(files) ==
    IF files = {} THEN << >>
    ELSE LET first == CHOOSE x \in files : \A y \in files : x <= y
         IN  << first >> \o wal_files_sort_ByNumber(files \ {first})

\* wal_files.sort(): paths of one directory ascend by file name, compared as bytes
RECURSIVE wal_files_sort(_)
wal_files_sort(files) ==
    IF files = {} THEN << >>
    ELSE LET first == CHOOSE x \in files :
                         \A y \in files : slice_cmp(to_string(x), to_string(y)) # "Greater"
         IN  << first >> \o wal_files_sort(files \ {first})

\* OpenOptions::new().append(true).create(true).open(path)
open_append(d, path) ==
    IF path \in DOMAIN d THEN d
    ELSE [f \in DOMAIN d \cup {path} |-> IF f = path THEN << >> ELSE d[f]]

\* Wal::new at the clock reading `now`
Wal_new(d, now) == [wal |-> [path |-> now, file |-> << >>], dir |-> open_append(d, now)]

\* Wal::from_path
Wal_from_path(d, path) == [wal |-> [path |-> path, file |-> << >>], dir |-> open_append(d, path)]

RECURSIVE be_bytes(_, _)
be_bytes(n, width) ==
    IF width = 0 THEN << >> ELSE be_bytes(n \div 256, width - 1) \o << n % 256 >>

\* to_le_bytes of an integer of `width` bytes
RECURSIVE le_bytes(_, _)
le_bytes(n, width) ==
    IF width = 0 THEN << >> ELSE << n % 256 >> \o le_bytes(n \div 256, width - 1)

\* A length or timestamp of 2^24 and more: no file of the model is that long.
TooLong == 16777216

\* usize::from_le_bytes / u128::from_le_bytes; values of 2^24 and more are not told apart
le_value(b) ==
    IF \E i \in 4..Len(b) : b[i] # 0 THEN TooLong
    ELSE b[1] + 256 * b[2] + 65536 * b[3]

\* Wal::set: key length, deleted = false, value length, key, value, timestamp
Wal_set(w, key, value, timestamp) ==
    [w EXCEPT !.file = @ \o le_bytes(Len(key), 8) \o le_bytes(0, 1) \o le_bytes(Len(value), 8)
                         \o key \o value \o le_bytes(timestamp, 16)]

\* Wal::delete: key length, deleted = true, key, timestamp
Wal_delete(w, key, timestamp) ==
    [w EXCEPT !.file = @ \o le_bytes(Len(key), 8) \o le_bytes(1, 1) \o key
                         \o le_bytes(timestamp, 16)]

\* Wal::flush: the buffered bytes go to the end of the file (a file that was
\* removed in the meantime is no longer in the directory)
Wal_flush(w, d) ==
    [wal |-> [w EXCEPT !.file = << >>],
     dir |-> IF w.path \in DOMAIN d THEN [d EXCEPT ![w.path] = @ \o w.file] ELSE d]

WalEntry(key, value, timestamp, deleted) ==
    [key |-> key, value |-> value, timestamp |-> timestamp, deleted |-> deleted]

\* BufReader::read_exact(n bytes) at offset pos of the file
read_exact(data, pos, n) ==
    IF pos + n <= Len(data)
    THEN [ok |-> TRUE, buf |-> SubSeq(data, pos + 1, pos + n), pos |-> pos + n]
    ELSE [ok |-> FALSE]

NoWalEntry == [some |-> FALSE]

\* WalIterator::next, the timestamp that ends an entry
WalIterator_next_timestamp(data, pos, key, value, deleted) ==
    LET t == read_exact(data, pos, 16)
    IN  IF ~t.ok THEN NoWalEntry
        ELSE [some |-> TRUE, entry |-> WalEntry(key, value, le_value(t.buf), deleted),
              pos |-> t.pos]

\* WalIterator::next at offset pos: the entry read and the offset after it, or None
WalIterator_next(data, pos) ==
    LET l == read_exact(data, pos, 8)
    IN  IF ~l.ok THEN NoWalEntry
        ELSE LET key_len == le_value(l.buf)
                 b == read_exact(data, l.pos, 1)
             IN  IF ~b.ok THEN NoWalEntry
                 ELSE IF b.buf[1] # 0
                 THEN LET k == read_exact(data, b.pos, key_len)
                      IN  IF ~k.ok THEN NoWalEntry
                          ELSE WalIterator_next_timestamp(data, k.pos, k.buf, None, TRUE)
                 ELSE LET vl == read_exact(data, b.pos, 8)
                      IN  IF ~vl.ok THEN NoWalEntry
                          ELSE LET value_len == le_value(vl.buf)
                                   k == read_exact(data, vl.pos, key_len)
                               IN  IF ~k.ok THEN NoWalEntry
                                   ELSE LET v == read_exact(data, k.pos, value_len)
                                        IN  IF ~v.ok THEN NoWalEntry
                                            ELSE WalIterator_next_timestamp(
                                                     data, v.pos, k.buf, Some(v.buf), FALSE)

\* the entries a WalIterator yields from offset pos until next returns None
RECURSIVE WalIterator_entries(_, _)
WalIterator_entries(data, pos) ==
    LET n == WalIterator_next(data, pos)
    IN  IF ~n.some THEN << >>
        ELSE << n.entry >> \o WalIterator_entries(data, n.pos)

RECURSIVE load_entries_SetsOnly(_, _, _)
load_entries_SetsOnly(entries, new_mem_table, new_wal_dir) ==
    IF entries = << >> THEN [mem_table |-> new_mem_table, wal |-> new_wal_dir]
    ELSE LET wal_entry == Head(entries)
         IN  IF wal_entry.deleted
             THEN load_entries_SetsOnly(Tail(entries), new_mem_table,
                      Wal_delete(new_wal_dir, wal_entry.key, wal_entry.timestamp))
             ELSE load_entries_SetsOnly(Tail(entries),
                      mem_table_set(new_mem_table, wal_entry.key, wal_entry.value.value,
                                    wal_entry.timestamp),
                      Wal_set(new_wal_dir, wal_entry.key, wal_entry.value.value,
                              wal_entry.timestamp))

\* load_wal_from_dir, the body of the inner loop over the entries of one file
RECURSIVE load_entries(_, _, _)
load_entries(entries, new_mem_table, new_wal_dir) ==
    IF entries = << >> THEN [mem_table |-> new_mem_table, wal |-> new_wal_dir]
    ELSE LET wal_entry == Head(entries)
         IN  IF wal_entry.deleted
             THEN load_entries(Tail(entries),
                      mem_table_delete(new_mem_table, wal_entry.key, wal_entry.timestamp),
                      Wal_delete(new_wal_dir, wal_entry.key, wal_entry.timestamp))
             ELSE load_entries(Tail(entries),
                      mem_table_set(new_mem_table, wal_entry.key, wal_entry.value.value,
                                    wal_entry.timestamp),
                      Wal_set(new_wal_dir, wal_entry.key, wal_entry.value.value,
                              wal_entry.timestamp))

\* load_wal_from_dir, the outer loop over the sorted files
RECURSIVE load_files(_, _, _, _)
load_files(wal_files, d, new_mem_table, new_wal_dir) ==
    IF wal_files = << >> THEN [mem_table |-> new_mem_table, wal |-> new_wal_dir]
    ELSE LET opened == Wal_from_path(d, Head(wal_files))
             r == load_entries(WalIterator_entries(opened.dir[opened.wal.path], 0),
                               new_mem_table, new_wal_dir)
         IN  load_files(Tail(wal_files), opened.dir, r.mem_table, r.wal)

\* remove_file for each of the files
remove_files(d, files) == [f \in DOMAIN d \ files |-> d[f]]

\* load_wal_from_dir after the loops: new_wal.flush(), then remove_file for each old file
load_wal_flush_and_remove(r, d, wal_files) ==
    [wal |-> Wal_flush(r.wal, d).wal, mem_table |-> r.mem_table,
     dir |-> remove_files(Wal_flush(r.wal, d).dir, wal_files)]

\* Wal::load_wal_from_dir at the clock reading `now`: the new Wal, the
\* recovered MemTable and the directory it leaves
load_wal_from_dir(d, now) ==
    load_wal_flush_and_remove(
        load_files(wal_files_sort(get_files_with_ext(d)), Wal_new(d, now).dir,
                   mem_table_new, Wal_new(d, now).wal),
        Wal_new(d, now).dir, get_files_with_ext(d))

\* BufWriter::new gives the writer a buffer of DEFAULT_BUF_SIZE bytes
BufWriterCapacity == 8192

\* BufWriter::write_all on a writer s = [buf, file]: bytes that do not fit in
\* the spare capacity push the buffer out to the file first, and a piece as
\* large as the buffer goes to the file directly
BufWriter_write_all(s, piece) ==
    IF Len(piece) < BufWriterCapacity - Len(s.buf)
    THEN [s EXCEPT !.buf = @ \o piece]
    ELSE IF Len(piece) >= BufWriterCapacity
    THEN [buf |-> << >>, file |-> s.file \o s.buf \o piece]
    ELSE IF Len(piece) > BufWriterCapacity - Len(s.buf)
    THEN [buf |-> piece, file |-> s.file \o s.buf]
    ELSE [s EXCEPT !.buf = @ \o piece]

\* the write_all calls of Wal::set and of Wal::delete, in order
Wal_set_writes(key, value, timestamp) ==
    << le_bytes(Len(key), 8), le_bytes(0, 1), le_bytes(Len(value), 8), key, value,
       le_bytes(timestamp, 16) >>

Wal_delete_writes(key, timestamp) ==
    << le_bytes(Len(key), 8), le_bytes(1, 1), key, le_bytes(timestamp, 16) >>

\* the write_all calls load_wal_from_dir makes on the new Wal for the entries of one file
RECURSIVE load_entries_writes(_)
load_entries_writes(entries) ==
    IF entries = << >> THEN << >>
    ELSE (IF Head(entries).deleted
          THEN Wal_delete_writes(Head(entries).key, Head(entries).timestamp)
          ELSE Wal_set_writes(Head(entries).key, Head(entries).value.value,
                              Head(entries).timestamp))
         \o load_entries_writes(Tail(entries))

\* ... and for the sorted files, one after the other
RECURSIVE load_files_writes(_, _)
load_files_writes(wal_files, d) ==
    IF wal_files = << >> THEN << >>
    ELSE load_entries_writes(WalIterator_entries(d[Head(wal_files)], 0))
         \o load_files_writes(Tail(wal_files), d)

\* the writer after the first n of the write_all calls
RECURSIVE BufWriter_after(_, _, _)
BufWriter_after(s, writes, n) ==
    IF n = 0 THEN s
    ELSE BufWriter_write_all(BufWriter_after(s, writes, n - 1), writes[n])

\* the points at which load_wal_from_dir on the directory d can stop: after
\* Wal::new and n of its write_all calls, or after the flush and the
\* removal of n of the old files
load_wal_stops(d) ==
    [at : {"write"}, n : 0..Len(load_files_writes(wal_files_sort(get_files_with_ext(d)), d))]
       \cup [at : {"remove"}, n : 0..Cardinality(get_files_with_ext(d))]

\* the new file when the process stops at the point `stop`: what the writer
\* has handed to the file; the buffer is lost with the process
load_wal_stopped_file(writes, stop) ==
    IF stop.at = "write"
    THEN BufWriter_after([buf |-> << >>, file |-> << >>], writes, stop.n).file
    ELSE BufWriter_after([buf |-> << >>, file |-> << >>], writes, Len(writes)).file
            \o BufWriter_after([buf |-> << >>, file |-> << >>], writes, Len(writes)).buf

\* the directory a load_wal_from_dir at the clock reading `now` leaves when
\* the process stops at the point `stop`
load_wal_stopped(d, now, stop) ==
    [f \in (DOMAIN d \cup {now})
             \ (IF stop.at = "remove"
                THEN {wal_files_sort(get_files_with_ext(d))[i] : i \in 1..stop.n}
                ELSE {}) |->
        IF f = now
        THEN load_wal_stopped_file(
                 load_files_writes(wal_files_sort(get_files_with_ext(d)), d), stop)
        ELSE d[f]]

----------------------------------------------------------------------------
(* LogSpec: Wal values made in one directory, written to and flushed, and  *)
(* the directory loaded by Wal::load_wal_from_dir, as wal_tests.rs does.   *)

\* The clock reads Epoch before the first call; Epoch + 1 has one digit, Epoch + 2 has two.
Epoch == 8
\* Clock readings taken (one per Wal::new) are at most Epoch + MaxTicks.
MaxTicks == 4
\* Entries written in all, by Wal::set and Wal::delete.
MaxLogCalls == 2

LogKeys == {<<97>>, <<98>>}
LogValues == {<<49>>}
\* Wal values held at a time
WalSlots == {1, 2}

LogInit ==
    /\ clock = Epoch
    /\ dir = << >>
    /\ wals = << >>
    /\ logged = << >>
    /\ engine = << >>
    /\ table = << >>
    /\ ThreadsIdle
    /\ ret = [op |-> "create_dir"]
    /\ EngineIdle
    /\ hashIdx = << >>
    /\ CodecIdle
    /\ BloomIdle

RECURSIVE SeqSum(_)
SeqSum(q) == IF q = << >> THEN 0 ELSE Head(q) + SeqSum(Tail(q))

\* entries written so far, over all files
LogCalls ==
    LET names == wal_files_sort(DOMAIN logged)
    IN  SeqSum([i \in 1..Len(names) |-> Len(logged[names[i]])])

\* the timestamp of the next entry: the entries are numbered as they are written
next_timestamp == LogCalls + 1

log_new ==
    /\ Len(wals) + 1 \in WalSlots
    /\ clock < Epoch + MaxTicks
    /\ LET now == generate_timestamp(clock)
           r == Wal_new(dir, now)
       IN  /\ clock' = now
           /\ dir' = r.dir
           /\ wals' = Append(wals, r.wal)
           /\ logged' = open_append(logged, now)
           /\ ret' = [op |-> "new", path |-> now]
    /\ UNCHANGED << engineVars, hashIdx, codecVars, bloomVars, threadVars, engine, table >>

log_set ==
    /\ LogCalls < MaxLogCalls
    /\ \E i \in DOMAIN wals, key \in LogKeys, value \in LogValues :
         /\ wals' = [wals EXCEPT ![i] = Wal_set(@, key, value, next_timestamp)]
         /\ logged' = [logged EXCEPT ![wals[i].path] =
                          Append(@, WalEntry(key, Some(value), next_timestamp, FALSE))]
         /\ ret' = [op |-> "set", path |-> wals[i].path]
    /\ UNCHANGED << engineVars, hashIdx, codecVars, bloomVars, threadVars, engine, table, clock, dir >>

log_delete ==
    /\ LogCalls < MaxLogCalls
    /\ \E i \in DOMAIN wals, key \in LogKeys :
         /\ wals' = [wals EXCEPT ![i] = Wal_delete(@, key, next_timestamp)]
         /\ logged' = [logged EXCEPT ![wals[i].path] =
                          Append(@, WalEntry(key, None, next_timestamp, TRUE))]
         /\ ret' = [op |-> "delete", path |-> wals[i].path]
    /\ UNCHANGED << engineVars, hashIdx, codecVars, bloomVars, threadVars, engine, table, clock, dir >>

log_flush ==
    /\ \E i \in DOMAIN wals :
         LET r == Wal_flush(wals[i], dir)
         IN  /\ wals[i].file # << >>
             /\ wals' = [wals EXCEPT ![i] = r.wal]
             /\ dir' = r.dir
             /\ ret' = [op |-> "flush", path |-> wals[i].path]
    /\ UNCHANGED << engineVars, hashIdx, codecVars, bloomVars, threadVars, engine, table, clock, logged >>

\* the entries load_wal_from_dir passes to set and delete of the new Wal
RECURSIVE load_calls(_, _)
load_calls(wal_files, d) ==
    IF wal_files = << >> THEN << >>
    ELSE WalIterator_entries(d[Head(wal_files)], 0) \o load_calls(Tail(wal_files), d)

\* The Wal values are flushed and given up, and the directory is loaded;
\* ret.before and ret.logged are the directory and the history the call found.
log_load ==
    /\ \A i \in DOMAIN wals : wals[i].file = << >>
    /\ clock < Epoch + MaxTicks
    /\ LET now == generate_timestamp(clock)
           r == load_wal_from_dir(dir, now)
       IN  /\ clock' = now
           /\ dir' = r.dir
           /\ wals' = << r.wal >>
           /\ table' = r.mem_table
           /\ logged' = [f \in DOMAIN r.dir |->
                             load_calls(wal_files_sort(get_files_with_ext(dir)), dir)]
           /\ ret' = [op |-> "load", path |-> now, before |-> dir, logged |-> logged]
    /\ UNCHANGED << engineVars, hashIdx, codecVars, bloomVars, threadVars, engine >>

LogNext == log_new \/ log_set \/ log_delete \/ log_flush \/ log_load

LogSpec == LogInit /\ [][LogNext]_vars

\* C26: for every Wal whose writes were flushed, a WalIterator over its
\* file yields the entries passed to set and delete, in the order of the
\* calls, each with its key, its value (None for a delete), its timestamp
\* and its deleted flag.
C26_WalRoundTrip ==
    \A i \in DOMAIN wals :
        (wals[i].file = << >> /\ wals[i].path \in DOMAIN dir) =>
            WalIterator_entries(dir[wals[i].path], 0) = logged[wals[i].path]

\* a flush after a set and a delete on one Wal
C26_Witness ==
    /\ ret.op = "flush"
    /\ \E i \in DOMAIN wals :
         /\ wals[i].path = ret.path
         /\ wals[i].file = << >>
         /\ Len(logged[ret.path]) = 2
         /\ ~logged[ret.path][1].deleted
         /\ logged[ret.path][2].deleted
         /\ WalIterator_entries(dir[ret.path], 0) = logged[ret.path]

\* the file names of a directory in ascending order, names compared as byte strings
SortedNames(d) ==
    CHOOSE q \in [1..Cardinality(DOMAIN d) -> DOMAIN d] :
        \A i, j \in DOMAIN q :
            i < j => slice_cmp(to_string(q[i]), to_string(q[j])) = "Less"

\* the entries written to the files, file after file in the order `names`
RECURSIVE EntriesInOrder(_, _)
EntriesInOrder(names, lg) ==
    IF names = << >> THEN << >>
    ELSE lg[Head(names)] \o EntriesInOrder(Tail(names), lg)

\* the last entry of `all` with the key, as Option
LastEntry(all, key) ==
    LET at == {i \in DOMAIN all : all[i].key = key}
    IN  IF at = {} THEN [some |-> FALSE]
        ELSE [some |-> TRUE, entry |-> all[CHOOSE i \in at : \A j \in at : j <= i]]

LoadedSameLengthNames ==
    /\ ret.op = "load"
    /\ \E f, g \in DOMAIN ret.before :
         /\ f < g
         /\ slice_cmp(to_string(f), to_string(g)) = "Less"
         /\ Len(ret.logged[f]) = 1 /\ Len(ret.logged[g]) = 1
         /\ ret.logged[f][1].key = ret.logged[g][1].key
         /\ mem_table_get(table, ret.logged[f][1].key) =
               [some |-> TRUE, entry |-> ret.logged[g][1]]

\* a load of a directory without .wal files
LoadedNoFiles ==
    ret.op = "load" /\ DOMAIN ret.before = {} /\ dir[ret.path] = << >>
        /\ table = mem_table_new

----------------------------------------------------------------------------
(* engine.rs: StorageEngine, a MemTable and the Wal that records every     *)
(* write before the MemTable takes it.                                     *)

\* StorageEngine { dir_path, mem_table, wal } of what load_wal_from_dir returned
StorageEngine(r) == [engine |-> [mem_table |-> r.mem_table, wal |-> r.wal], dir |-> r.dir]

\* StorageEngine::new on the directory d (created if missing) at the clock reading `now`
engine_new(d, now) == StorageEngine(load_wal_from_dir(d, now))

StorageEngineEntry(key, value, timestamp) ==
    [key |-> key, value |-> value, timestamp |-> timestamp]

engine_get_Unwraps(e, key) ==
    LET m == mem_table_get(e.mem_table, key)
    IN  IF m.some
        THEN [some |-> TRUE,
              entry |-> StorageEngineEntry(m.entry.key, m.entry.value.value, m.entry.timestamp)]
        ELSE [some |-> FALSE]

\* StorageEngine::get: the entry of the key if the MemTable holds a value for it
engine_get(e, key) ==
    LET m == mem_table_get(e.mem_table, key)
    IN  IF m.some /\ m.entry.value.some
        THEN [some |-> TRUE,
              entry |-> StorageEngineEntry(m.entry.key, m.entry.value.value, m.entry.timestamp)]
        ELSE [some |-> FALSE]

\* StorageEngine::set with the clock reading `now`; the writes to the log succeed
engine_set(e, d, key, value, now) ==
    LET f == Wal_flush(Wal_set(e.wal, key, value, now), d)
    IN  [engine |-> [mem_table |-> mem_table_set(e.mem_table, key, value, now), wal |-> f.wal],
         dir |-> f.dir, result |-> "Ok(1)"]

\* StorageEngine::delete with the clock reading `now`; the writes to the log succeed
engine_delete(e, d, key, now) ==
    LET f == Wal_flush(Wal_delete(e.wal, key, now), d)
    IN  [engine |-> [mem_table |-> mem_table_delete(e.mem_table, key, now), wal |-> f.wal],
         dir |-> f.dir, result |-> "Ok(1)"]

----------------------------------------------------------------------------
(* StoreSpec: an engine::StorageEngine on one directory under set, delete  *)
(* and the construction of a new engine on the same directory.             *)

\* Calls of set, delete and new made after the first construction.
MaxStoreCalls == 4

\* keys and values, the empty byte string among them
StoreKeys == {<< >>, <<97>>, <<98>>}
StoreValues == {<< >>, <<49>>}

\* StorageEngine::new on a directory that does not exist yet
StoreInit ==
    /\ clock = generate_timestamp(Epoch)
    /\ \E r \in {engine_new(<< >>, generate_timestamp(Epoch))} :
         /\ dir = r.dir
         /\ engine = r.engine
    /\ ret = [op |-> "new", before |-> << >>]
    /\ wals = << >>
    /\ logged = << >>
    /\ table = << >>
    /\ ThreadsIdle
    /\ EngineIdle
    /\ hashIdx = << >>
    /\ CodecIdle
    /\ BloomIdle

\* ret.before is the engine the call was made on
store_set ==
    /\ clock < Epoch + 1 + MaxStoreCalls
    /\ \E key \in StoreKeys, value \in StoreValues :
         LET now == generate_timestamp(clock)
             r == engine_set(engine, dir, key, value, now)
         IN  /\ clock' = now
             /\ engine' = r.engine
             /\ dir' = r.dir
             /\ ret' = [op |-> "set", key |-> key, value |-> value, timestamp |-> now,
                        result |-> r.result, before |-> engine]
    /\ UNCHANGED << engineVars, hashIdx, codecVars, bloomVars, threadVars, table, wals, logged >>

store_delete ==
    /\ clock < Epoch + 1 + MaxStoreCalls
    /\ \E key \in StoreKeys :
         LET now == generate_timestamp(clock)
             r == engine_delete(engine, dir, key, now)
         IN  /\ clock' = now
             /\ engine' = r.engine
             /\ dir' = r.dir
             /\ ret' = [op |-> "delete", key |-> key, timestamp |-> now,
                        result |-> r.result, before |-> engine]
    /\ UNCHANGED << engineVars, hashIdx, codecVars, bloomVars, threadVars, table, wals, logged >>

\* the engine is given up (or the process ends) and a new one is made on the directory
store_new ==
    /\ clock < Epoch + 1 + MaxStoreCalls
    /\ LET now == generate_timestamp(clock)
           r == engine_new(dir, now)
       IN  /\ clock' = now
           /\ engine' = r.engine
           /\ dir' = r.dir
           /\ ret' = [op |-> "new", before |-> engine]
    /\ UNCHANGED << engineVars, hashIdx, codecVars, bloomVars, threadVars, table, wals, logged >>

StoreNext == store_set \/ store_delete \/ store_new

StoreSpec == StoreInit /\ [][StoreNext]_vars

SetOverTombstone ==
    /\ ret.op = "set"
    /\ mem_table_get(ret.before.mem_table, ret.key).some
    /\ ~engine_get(ret.before, ret.key).some
    /\ engine_get(engine, ret.key).some

\* C23: delete(k1) and set(k1, v) leave what get(k2) returns as it was, for
\* every key k2 other than k1.
C23_OtherKeysUnchanged ==
    ret.op \in {"set", "delete"} =>
        \A k2 \in StoreKeys \ {ret.key} :
            engine_get(engine, k2) = engine_get(ret.before, k2)

\* a delete of a key that had a value (the second in key order) while the other key has one
C23_Witness ==
    /\ ret.op = "delete"
    /\ engine_get(ret.before, ret.key).some
    /\ ret.key = <<98>>
    /\ engine_get(ret.before, <<97>>).some
    /\ engine_get(engine, <<97>>) = engine_get(ret.before, <<97>>)

\* C24: a new StorageEngine made on the directory after sets and deletes
\* that returned Ok(1) has a MemTable with the same entries (key, value,
\* timestamp, tombstone flag) and the same size as the engine it replaces.
C24_RecoversMemTable ==
    (ret.op = "new" /\ ret.before # << >>) =>
        engine.mem_table = ret.before.mem_table

\* a new engine on a directory whose log holds a set of one key and a set
\* and a delete of the other
C24_Witness ==
    /\ ret.op = "new"
    /\ ret.before # << >>
    /\ Len(engine.mem_table.entries) = 2
    /\ \E i \in 1..2 : engine.mem_table.entries[i].deleted
    /\ \E i \in 1..2 : engine.mem_table.entries[i].value.some
    /\ engine.mem_table = ret.before.mem_table

\* C31: delete(k) with the timestamp ts leaves in the MemTable the entry
\* (k, None, ts, deleted) whether or not k had an entry before: MemTable::get(k)
\* returns that entry, and StorageEngine::get(k) returns None.
C31_DeleteLeavesTombstone ==
    ret.op = "delete" =>
        /\ mem_table_get(engine.mem_table, ret.key) =
              [some |-> TRUE,
               entry |-> new_memtable_entry(ret.key, None, ret.timestamp, TRUE)]
        /\ ~engine_get(engine, ret.key).some

\* a delete of a key the MemTable had no entry for, next to the entry of another key
C31_Witness ==
    /\ ret.op = "delete"
    /\ ~mem_table_get(ret.before.mem_table, ret.key).some
    /\ ret.before.mem_table.entries # << >>
    /\ mem_table_get(engine.mem_table, ret.key).some
    /\ ~engine_get(engine, ret.key).some

\* a delete of a key that held a value
C31_DeleteOfHeldKey ==
    /\ ret.op = "delete"
    /\ engine_get(ret.before, ret.key).some
    /\ mem_table_get(engine.mem_table, ret.key).some

----------------------------------------------------------------------------
(* StopSpec: an engine::StorageEngine on one directory whose process can   *)
(* stop in the middle of Wal::load_wal_from_dir, after which the engine is *)
(* constructed again on what the directory then holds.  Values are as long *)
(* as the writer's buffer, so that parts of the new log reach its file     *)
(* before the flush.                                                       *)

\* Clock readings taken after the first construction.
MaxStopTicks == 5

StopKeys == {<<97>>}
StopValues == {Bytes(49, BufWriterCapacity), Bytes(50, BufWriterCapacity)}

stop_set ==
    /\ engine # << >>
    /\ clock < Epoch + 1 + MaxStopTicks
    /\ \E key \in StopKeys, value \in StopValues :
         \E r \in {engine_set(engine, dir, key, value, generate_timestamp(clock))} :
             /\ clock' = generate_timestamp(clock)
             /\ engine' = r.engine
             /\ dir' = r.dir
             /\ ret' = [op |-> "set", key |-> key, value |-> value]
    /\ UNCHANGED << engineVars, hashIdx, codecVars, bloomVars, threadVars, table, wals, logged >>

\* the engine is given up and a new one is made on the directory
stop_new ==
    /\ engine # << >>
    /\ clock < Epoch + 1 + MaxStopTicks
    /\ \E r \in {engine_new(dir, generate_timestamp(clock))} :
         /\ clock' = generate_timestamp(clock)
         /\ engine' = r.engine
         /\ dir' = r.dir
         /\ ret' = [op |-> "new"]
    /\ UNCHANGED << engineVars, hashIdx, codecVars, bloomVars, threadVars, table, wals, logged >>

\* a new process starts StorageEngine::new and stops inside load_wal_from_dir;
\* ret.expected is the MemTable the load would have returned
load_stop ==
    /\ engine # << >>
    /\ clock < Epoch + 1 + MaxStopTicks
    /\ \E stop \in load_wal_stops(dir) :
         /\ clock' = generate_timestamp(clock)
         /\ dir' = load_wal_stopped(dir, generate_timestamp(clock), stop)
         /\ engine' = << >>
         /\ ret' = [op |-> "stopped", stop |-> stop,
                    expected |-> load_wal_from_dir(dir, generate_timestamp(clock)).mem_table]
    /\ UNCHANGED << engineVars, hashIdx, codecVars, bloomVars, threadVars, table, wals, logged >>

\* StorageEngine::new on the directory the stopped load left
load_again ==
    /\ engine = << >>
    /\ clock < Epoch + 1 + MaxStopTicks
    /\ \E r \in {engine_new(dir, generate_timestamp(clock))} :
         /\ clock' = generate_timestamp(clock)
         /\ engine' = r.engine
         /\ dir' = r.dir
         /\ ret' = [op |-> "loaded again", stop |-> ret.stop, expected |-> ret.expected]
    /\ UNCHANGED << engineVars, hashIdx, codecVars, bloomVars, threadVars, table, wals, logged >>

StopNext == stop_set \/ stop_new \/ load_stop \/ load_again

StopSpec == StoreInit /\ [][StopNext]_vars

\* C37: when load_wal_from_dir stops at any point (after any number of its
\* writes to the new log, or after the flush and the removal of any number
\* of the old files) and is run again on the directory, the MemTable it
\* returns is the one the run that stopped would have returned.
C37_LoadSurvivesStop ==
    ret.op = "loaded again" => engine.mem_table = ret.expected

\* the same for a stop after the flush, while the old files are removed
StopWhileRemovingIsSafe ==
    (ret.op = "loaded again" /\ ret.stop.at = "remove") => engine.mem_table = ret.expected

----------------------------------------------------------------------------

(* ThreadSpec: threads that share one engine::StorageEngine behind a       *)
(* Mutex, each locking it and calling set with a key of its own, as        *)
(* test_storage_engine_concurrent_writes does.  A call of set works on the *)
(* engine it finds and leaves its result when it returns; the guard is     *)
(* dropped at the end of the thread's closure.                             *)

\* Threads spawned.
NumThreads == 4
Threads == 1..NumThreads

\* format!("key{}", i) and format!("value{}", i), for i below ten
thread_key(i) == <<107, 101, 121, 48 + (i - 1)>>
thread_value(i) == <<118, 97, 108, 117, 101, 48 + (i - 1)>>

Mutex_lock_Unguarded(m, t) == [ok |-> TRUE, mutex |-> [locked |-> TRUE, owner |-> t]]

\* Mutex::lock by thread t: blocks while another thread holds the guard
Mutex_lock(m, t) == [ok |-> ~m.locked, mutex |-> [locked |-> TRUE, owner |-> t]]

\* drop of the MutexGuard
Mutex_unlock == [locked |-> FALSE, owner |-> 0]

ThreadInit ==
    /\ clock = generate_timestamp(Epoch)
    /\ \E r \in {engine_new(<< >>, generate_timestamp(Epoch))} :
         /\ dir = r.dir
         /\ engine = r.engine
    /\ threads = [t \in Threads |-> [pc |-> "spawned", result |-> "none", set |-> << >>]]
    /\ mutex = Mutex_unlock
    /\ ret = [op |-> "spawn"]
    /\ wals = << >>
    /\ logged = << >>
    /\ table = << >>
    /\ EngineIdle
    /\ hashIdx = << >>
    /\ CodecIdle
    /\ BloomIdle

\* let mut engine = engine_ref.lock().unwrap()
thread_lock ==
    /\ \E t \in Threads :
         LET l == Mutex_lock(mutex, t)
         IN  /\ threads[t].pc = "spawned"
             /\ l.ok
             /\ mutex' = l.mutex
             /\ threads' = [threads EXCEPT ![t].pc = "locked"]
             /\ ret' = [op |-> "lock", thread |-> t]
    /\ UNCHANGED << engineVars, hashIdx, codecVars, bloomVars, table, wals, logged, clock, dir,
                    engine >>

\* engine.set(key.as_bytes(), value.as_bytes()) is entered: it works on the engine it finds
thread_set ==
    /\ \E t \in Threads :
         LET now == generate_timestamp(clock)
         IN  /\ threads[t].pc = "locked"
             /\ clock' = now
             /\ threads' = [threads EXCEPT
                   ![t].pc = "in set",
                   ![t].set = engine_set(engine, dir, thread_key(t), thread_value(t), now)]
             /\ ret' = [op |-> "set", thread |-> t]
    /\ UNCHANGED << engineVars, hashIdx, codecVars, bloomVars, table, wals, logged, dir,
                    engine, mutex >>

\* set returns, the closure ends and the guard is dropped
thread_return ==
    /\ \E t \in Threads :
         /\ threads[t].pc = "in set"
         /\ engine' = threads[t].set.engine
         /\ dir' = threads[t].set.dir
         /\ threads' = [threads EXCEPT ![t].pc = "done",
                                       ![t].result = threads[t].set.result,
                                       ![t].set = << >>]
         /\ mutex' = Mutex_unlock
         /\ ret' = [op |-> "return", thread |-> t]
    /\ UNCHANGED << engineVars, hashIdx, codecVars, bloomVars, table, wals, logged, clock >>

ThreadNext == thread_lock \/ thread_set \/ thread_return

ThreadSpec == ThreadInit /\ [][ThreadNext]_vars

MutualExclusion ==
    Cardinality({t \in Threads : threads[t].pc \in {"locked", "in set"}}) <= 1

----------------------------------------------------------------------------
(* The flush inside api::StorageEngine::put (checked under Spec and CallSpec) *)

\* the step is a put whose append to the log returned Ok
PutAppended == last'.op = "put" /\ Len(appended') = Len(appended) + 1

\* the step built an SSTable from the MemTable
FlushedNow == Len(created') = Len(created) + 1

\* what the MemTable's map holds for a key, as Option
MapGet(mt, key) == IF key \in DOMAIN mt.entries THEN Some(mt.entries[key]) ELSE None

FlushedPutOfHeldKey ==
    /\ last.op = "put" /\ last.result = "Ok"
    /\ Len(created) = 1
    /\ SSTable_get(created[1], last.key).some
    /\ DOMAIN memtable.entries = {last.key}

\* C28: a flush leaves the log as it is (the file after a flushing put is
\* the file before it followed by the put's record) and replaces the
\* MemTable by an empty one of the same capacity in bytes and the same
\* false-positive rate, into which the put then inserts its pair.
C28_FlushKeepsLogAndParameters ==
    [][((last'.op = "put" /\ FlushedNow) =>
          /\ memtable'.capacity = memtable.capacity
          /\ memtable'.false_positive_rate = memtable.false_positive_rate
          /\ memtable'.entry_count = 1
          /\ \A k \in Keys, v \in Values :
                (k = last'.key /\ v = last'.value) =>
                   /\ walFile' = walFile \o serialize(WriteAheadLogEntry(Insert, k, v))
                   /\ memtable'.entries = [x \in {k} |-> v]
                   /\ memtable'.size = Len(k) + Len(v)
                   /\ memtable'.bloom_filter =
                         BloomFilter_set(BloomFilter_new(memtable.capacity \div 100), k))]_vars

\* a put has flushed a full MemTable: the log holds the record that filled
\* it and the put's record, the MemTable has the capacity it was made with
C28_Witness ==
    /\ last.op = "put"
    /\ flushed
    /\ Len(created) = 1
    /\ Len(appended) = 2
    /\ walFile = serialize(appended[1]) \o serialize(appended[2])
    /\ memtable.capacity = Capacity
    /\ memtable.false_positive_rate = FalsePositiveRate
    /\ memtable.entry_count = 1

----------------------------------------------------------------------------
(* CapSpec: MemTable::with_capacity_and_rate called with every kind of     *)
(* argument.  A usize is written here as four 16-bit limbs, most           *)
(* significant first, so that capacities up to 2^64 - 1 and the products   *)
(* of SizeUnit::to_bytes can be written down.                              *)

Limbs(a, b, c, d) == << a, b, c, d >>

\* the usize is zero
limbs_is_zero(w) == \A i \in 1..4 : w[i] = 0

\* value * 1024 in usize arithmetic: the wrapped product, and whether the
\* exact product is 2^64 or more
mul_1024(w) ==
    [value |-> [i \in 1..4 |->
                   ((w[i] * 1024) % 65536)
                     + (IF i < 4 THEN (w[i + 1] * 1024) \div 65536 ELSE 0)],
     overflow |-> (w[1] * 1024) \div 65536 > 0]

\* value * 1024 * ... * 1024, times multiplications evaluated left to right
RECURSIVE mul_1024_times(_, _)
mul_1024_times(w, times) ==
    IF times = 0 THEN [value |-> w, overflow |-> FALSE]
    ELSE LET m == mul_1024(w)
             r == mul_1024_times(m.value, times - 1)
         IN  [value |-> r.value, overflow |-> m.overflow \/ r.overflow]

SizeUnits == {"Bytes", "Kilobytes", "Megabytes", "Gigabytes"}

\* SizeUnit::to_bytes
SizeUnit_to_bytes(size_unit, value) ==
    mul_1024_times(value, CASE size_unit = "Bytes" -> 0
                            [] size_unit = "Kilobytes" -> 1
                            [] size_unit = "Megabytes" -> 2
                            [] size_unit = "Gigabytes" -> 3)

\* the remainder of the i most significant limbs of w divided by 100
RECURSIVE rem_100(_, _)
rem_100(w, i) ==
    IF i = 0 THEN 0 ELSE (rem_100(w, i - 1) * 65536 + w[i]) % 100

\* capacity_bytes / avg_entry_size with avg_entry_size = 100
div_100(w) ==
    [i \in 1..4 |-> (rem_100(w, i - 1) * 65536 + w[i]) \div 100]

NoPanic == "none"

\* the assertions of BloomFilter::new; false_positive_rate is the pair
\* numerator/denominator
BloomFilter_new_asserts(num_elements, false_positive_rate) ==
    IF limbs_is_zero(num_elements)
    THEN "Number of elements must be greater than zero"
    ELSE IF ~ (false_positive_rate[1] > 0 /\ false_positive_rate[1] < false_positive_rate[2])
    THEN "False positive rate must be between 0 and 1"
    ELSE NoPanic

\* MemTable::with_capacity_and_rate up to the call of BloomFilter::new: the
\* panic it ends with, if any, and the values it computed.  A product beyond
\* usize panics in a build with overflow checks and wraps in one without.
MemTable_with_capacity_and_rate_asserts(size_unit, capacity, rate, overflow_checks) ==
    LET capacity_bytes == SizeUnit_to_bytes(size_unit, capacity)
        num_elements == div_100(capacity_bytes.value)
    IN  [capacity_bytes |-> capacity_bytes.value,
         num_elements |-> num_elements,
         panic |->
           IF limbs_is_zero(capacity)
           THEN "Capacity must be greater than zero"
           ELSE IF capacity_bytes.overflow /\ overflow_checks
           THEN "attempt to multiply with overflow"
           ELSE BloomFilter_new_asserts(num_elements, rate)]

\* capacities around the average entry size, around the unit sizes, and around
\* the largest usize
CapCapacities ==
    {Limbs(0, 0, 0, 0), Limbs(0, 0, 0, 1), Limbs(0, 0, 0, 99), Limbs(0, 0, 0, 100),
     Limbs(0, 0, 0, 101), Limbs(0, 0, 0, 1024), Limbs(0, 0, 16, 0), Limbs(0, 4, 0, 0),
     Limbs(0, 4096, 0, 0), Limbs(64, 0, 0, 0), Limbs(64, 0, 0, 1), Limbs(32768, 0, 0, 0),
     Limbs(65535, 65535, 65535, 65535)}

\* rates 0, 1/100, 1/2, 99/100 and 1
CapRates == {<<0, 1>>, <<1, 100>>, <<1, 2>>, <<99, 100>>, <<1, 1>>}

CapInit ==
    /\ table = << >>
    /\ ret = NoCall
    /\ LogIdle
    /\ EngineIdle
    /\ hashIdx = << >>
    /\ CodecIdle
    /\ BloomIdle

cap_with_capacity_and_rate ==
    /\ \E size_unit \in SizeUnits, capacity \in CapCapacities,
          false_positive_rate \in CapRates, overflow_checks \in BOOLEAN :
         ret' = [op |-> "with_capacity_and_rate", size_unit |-> size_unit,
                 capacity |-> capacity, false_positive_rate |-> false_positive_rate,
                 overflow_checks |-> overflow_checks,
                 returned |-> MemTable_with_capacity_and_rate_asserts(
                                 size_unit, capacity, false_positive_rate,
                                 overflow_checks)]
    /\ UNCHANGED << table, engineVars, hashIdx, codecVars, bloomVars, logVars >>

CapNext == cap_with_capacity_and_rate

CapSpec == CapInit /\ [][CapNext]_vars

\* the call was made with a capacity greater than zero and a rate strictly
\* between 0 and 1
CapArgumentsInRange ==
    /\ ret.op = "with_capacity_and_rate"
    /\ ~limbs_is_zero(ret.capacity)
    /\ ret.false_positive_rate[1] > 0
    /\ ret.false_positive_rate[1] < ret.false_positive_rate[2]

\* C39 (the constructor succeeds): with a capacity greater than zero and a
\* rate strictly between 0 and 1, in any size unit, with_capacity_and_rate
\* does not panic, and the element count it passes to BloomFilter::new is
\* greater than zero.
C39_ConstructorSucceeds ==
    CapArgumentsInRange
        => (/\ ret.returned.panic = NoPanic
            /\ ~limbs_is_zero(ret.returned.num_elements))

\* with arguments in range, the call panics exactly when the product of
\* to_bytes overflows in a build that checks it, or the capacity in bytes,
\* wrapped in a build that does not, is below 100
C39_PanicsBelowHundredBytes ==
    CapArgumentsInRange
        => (ret.returned.panic # NoPanic
              <=> \/ /\ ret.overflow_checks
                     /\ SizeUnit_to_bytes(ret.size_unit, ret.capacity).overflow
                  \/ /\ \A i \in 1..3 : ret.returned.capacity_bytes[i] = 0
                     /\ ret.returned.capacity_bytes[4] < 100)

\* a capacity of 1 KB and more, with no overflow, was accepted
CapAccepted ==
    /\ CapArgumentsInRange
    /\ ret.size_unit # "Bytes"
    /\ ret.returned.panic = NoPanic

\* a product beyond usize wrapped to a capacity of 0 bytes
CapWrappedToZero ==
    /\ CapArgumentsInRange
    /\ ~ret.overflow_checks
    /\ limbs_is_zero(ret.returned.capacity_bytes)
    /\ ret.returned.panic = "Number of elements must be greater than zero"

----------------------------------------------------------------------------

(* RecoverSpec: WriteAheadLog::recover run one loop iteration at a time on *)
(* a file of any content.  The call runs to its return without suspension, *)
(* so its steps are taken under weak fairness.                             *)

\* Iterations of the loop of recover the model follows.
MaxIterations == 4

\* read_to_end that leaves the read position where it was
read_to_end_KeepsPosition(file, pos) ==
    [serialized_data |-> SubSeq(file, pos + 1, Len(file)), pos |-> pos]

\* log_file.read_to_end(&mut serialized_data): the bytes from the read
\* position to the end of the file; the position moves to the end
read_to_end(file, pos) ==
    [serialized_data |-> SubSeq(file, pos + 1, Len(file)), pos |-> Len(file)]

\* Contents of the log file: the byte strings of CodecData (whole records, cut
\* short, lengthened, with a header byte overwritten) and two whole records
\* one after the other.
RecoverFiles ==
    CodecData
      \cup {serialize(a) \o serialize(b) :
              a, b \in {x \in CodecEntries : Len(x.key) = 1 /\ Len(x.value) = 1}}

RecoverInit ==
    /\ walFile \in RecoverFiles
    /\ codec = [op |-> "opened"]
    /\ running = FALSE
    /\ memtable = << >>
    /\ sstables = << >>
    /\ last = Call("none", << >>, << >>, "Ok")
    /\ appended = << >>
    /\ acked = << >>
    /\ flushed = FALSE
    /\ created = << >>
    /\ hashIdx = << >>
    /\ StoreIdle
    /\ BloomIdle

\* recover is called on a handle whose read position is 0: the lock is taken
\* and entries is the empty Vec
recover_call ==
    /\ codec.op = "opened"
    /\ codec' = [op |-> "loop", pos |-> 0, entries |-> << >>, iterations |-> 0]
    /\ UNCHANGED << engineVars, hashIdx, bloomVars, storeVars >>

\* one iteration of the loop; `fail` makes read_to_end return an error
recover_iteration ==
    /\ codec.op = "loop"
    /\ codec.iterations < MaxIterations
    /\ \E fail \in BOOLEAN :
         LET r == read_to_end(walFile, codec.pos)
             d == deserialize(r.serialized_data)
             n == codec.iterations + 1
         IN  codec' =
               IF fail
               THEN [op |-> "returned", ok |-> FALSE, entries |-> << >>,
                     iterations |-> n, read_failed |-> TRUE]
               ELSE IF r.serialized_data = << >>
               THEN [op |-> "returned", ok |-> TRUE, entries |-> codec.entries,
                     iterations |-> n, read_failed |-> FALSE]
               ELSE IF ~d.ok
               THEN [op |-> "returned", ok |-> FALSE, entries |-> << >>,
                     iterations |-> n, read_failed |-> FALSE]
               ELSE [op |-> "loop", pos |-> r.pos, entries |-> Append(codec.entries, d.entry),
                     iterations |-> n]
    /\ UNCHANGED << engineVars, hashIdx, bloomVars, storeVars >>

RecoverNext == recover_call \/ recover_iteration

RecoverSpec == RecoverInit /\ [][RecoverNext]_vars /\ WF_vars(RecoverNext)

\* C40 (recover terminates): on a file of any content the call of recover
\* returns, with the entries or with an error, and its loop makes at most two
\* iterations.
C40_RecoverTerminates ==
    /\ <>(codec.op = "returned")
    /\ [](codec.op \in {"loop", "returned"} => codec.iterations <= 2)

\* recover has returned the entry of a file that holds one whole record, in
\* its second iteration
C40_Witness ==
    /\ codec.op = "returned" /\ codec.ok
    /\ codec.iterations = 2
    /\ Len(codec.entries) = 1
    /\ walFile = serialize(codec.entries[1])

\* recover has returned an error in its first iteration, on a file that does
\* not deserialize
C40_ReturnedError ==
    /\ codec.op = "returned" /\ ~codec.ok /\ ~codec.read_failed
    /\ codec.iterations = 1

\* when no read fails, the call returns what WriteAheadLog_recover gives
RecoverAgreesWithLoop ==
    (codec.op = "returned" /\ ~codec.read_failed)
        => (/\ codec.ok = WriteAheadLog_recover(walFile).ok
            /\ codec.entries = WriteAheadLog_recover(walFile).entries)

----------------------------------------------------------------------------

(* Frame of api::StorageEngine::put *)

\* C38 (frame of put): a put(k, v) that returns Ok leaves get(k2) as it was
\* for every key k2 other than k, also when the put flushes the MemTable.
C38_PutLeavesOtherKeys ==
    [][(last'.op = "put" /\ last'.result = "Ok")
        => \A k \in Keys \ {last'.key} : Get(k)' = Get(k)]_vars

\* a put that does not flush leaves get(k2) as it was for every other key
PutWithoutFlushLeavesOtherKeys ==
    [][(last'.op = "put" /\ last'.result = "Ok" /\ ~FlushingPut)
        => \A k \in Keys \ {last'.key} : Get(k)' = Get(k)]_vars

\* a put has returned Ok and another key holds a value
PutBesideHeldKey ==
    /\ last.op = "put" /\ last.result = "Ok"
    /\ \E k \in Keys \ {last.key} : Get(k).some

----------------------------------------------------------------------------

(* Lock discipline of api::StorageEngine *)

\* the locks held after the first i events of a lock sequence
HeldAfter(t, i) ==
    {l \in {"wal", "entries", "bits"} :
        \E j \in 1..i : /\ t[j] = Acquire(l)
                        /\ \A k \in (j + 1)..i : t[k] # Release(l)}

\* the pairs (held, acquired) of a lock sequence
Nesting(t) ==
    {p \in {"wal", "entries", "bits"} \X {"wal", "entries", "bits"} :
        \E i \in 1..Len(t) : t[i] = Acquire(p[2]) /\ p[1] \in HeldAfter(t, i - 1)}

\* no acquisition of the entries lock comes before the first acquisition of the WAL lock
WalBeforeEntries(t) ==
    \A i \in 1..Len(t) :
        t[i] = Acquire("entries") => \E j \in 1..(i - 1) : t[j] = Acquire("wal")

NeverBoth(t) == \A i \in 0..Len(t) : ~({"wal", "entries"} \subseteq HeldAfter(t, i))

\* the step is put(key, value) with the write fault f
IsPut(key, value, f) ==
    /\ running
    /\ last' = Call("put", key, value, StorageEngine_put(Engine, key, value, f[1], f[2]).result)
    /\ memtable' = StorageEngine_put(Engine, key, value, f[1], f[2]).e.memtable
    /\ walFile' = StorageEngine_put(Engine, key, value, f[1], f[2]).e.wal

IsRemove(key, f) ==
    /\ running
    /\ last' = Call("remove", key, << >>, StorageEngine_remove(Engine, key, f[1], f[2]).result)
    /\ memtable' = StorageEngine_remove(Engine, key, f[1], f[2]).e.memtable
    /\ walFile' = StorageEngine_remove(Engine, key, f[1], f[2]).e.wal

IsUpdate(key, value, f1, f2) ==
    /\ running
    /\ last' = Call("update", key, value,
                    StorageEngine_update(Engine, key, value, f1[1], f1[2], f2[1], f2[2]).result)
    /\ memtable' = StorageEngine_update(Engine, key, value, f1[1], f1[2], f2[1], f2[2]).e.memtable
    /\ walFile' = StorageEngine_update(Engine, key, value, f1[1], f1[2], f2[1], f2[2]).e.wal

\* P holds of the lock sequence of every put, remove and update step
EveryWrite(P(_)) ==
    \A key \in Keys, value \in Values, f1 \in Faults, f2 \in Faults :
        /\ IsPut(key, value, f1) => P(StorageEngine_put_locks(Engine, key, value, f1[1], f1[2]))
        /\ IsRemove(key, f1) => P(StorageEngine_remove_locks(Engine, key, f1[1], f1[2]))
        /\ IsUpdate(key, value, f1, f2) =>
              P(StorageEngine_update_locks(Engine, key, value, f1[1], f1[2], f2[1], f2[2]))

\* C36: in every put, remove and update the WAL lock is taken before the
\* MemTable entries lock, the two are never held at the same time, and no
\* lock is taken while another is held except the filter's inside the
\* entries lock (so the order of nested acquisitions has no cycle and no
\* interleaving of callers can deadlock).
C36_LockDiscipline ==
    [][EveryWrite(LAMBDA t : /\ WalBeforeEntries(t)
                             /\ NeverBoth(t)
                             /\ Nesting(t) \subseteq {<< "entries", "bits" >>})]_vars

\* the WAL lock and the entries lock are never held together in a write
WalAndEntriesNeverHeldTogether == [][EveryWrite(NeverBoth)]_vars

\* the only lock taken while another is held is the filter's, inside the entries lock
OnlyFilterNestsInEntries ==
    [][EveryWrite(LAMBDA t : Nesting(t) \subseteq {<< "entries", "bits" >>})]_vars

\* put alone takes the WAL lock first
PutTakesWalFirst ==
    [][\A key \in Keys, value \in Values, f \in Faults :
          IsPut(key, value, f) =>
             WalBeforeEntries(StorageEngine_put_locks(Engine, key, value, f[1], f[2]))]_vars

====
